---------------------------- MODULE Spec2Model ----------------------------
(***************************************************************************)
(* Model of the Excel-Formatter sheet builder pages.                       *)
(*                                                                         *)
(* The "unified" page (src/unnamed/part_001) is the main state machine:    *)
(* file upload and parsing, grouping/validation (processData), the manual  *)
(* builder (raw Add/Update, Process Manual), Edit, Delete and Export.      *)
(* The older upload page (src/src/pages/ExcelGeneratorWithUpload.tsx) is   *)
(* modelled by the definitions whose names start with EG.                  *)
(*                                                                         *)
(* JavaScript strings are sequences of one-character strings, so that      *)
(* trim, split, length and the letter/digit mask are computed, not assumed.*)
(***************************************************************************)
EXTENDS Integers, Sequences, FiniteSets, TLC

(***************************************************************************)
(* JavaScript values                                                       *)
(***************************************************************************)

\* A cell of an uploaded table: a string, a number, or undefined (a hole /
\* a key the row object does not have).
Str(s) == [t |-> "str", s |-> s, n |-> 0]
Num(n) == [t |-> "num", s |-> <<>>, n |-> n]
Undef == [t |-> "undef", s |-> <<>>, n |-> 0]

\* A JavaScript number that may be NaN.
JNum(v) == [nan |-> FALSE, v |-> v]
NaN == [nan |-> TRUE, v |-> 0]

Digits == {"0", "1", "2", "3", "4", "5", "6", "7", "8", "9"}
WhiteSpace == {" ", "\t", "\n"}

DigitVal(c) ==
  CASE c = "0" -> 0 [] c = "1" -> 1 [] c = "2" -> 2 [] c = "3" -> 3
    [] c = "4" -> 4 [] c = "5" -> 5 [] c = "6" -> 6 [] c = "7" -> 7
    [] c = "8" -> 8 [] c = "9" -> 9

DigitChar(d) ==
  CASE d = 0 -> "0" [] d = 1 -> "1" [] d = 2 -> "2" [] d = 3 -> "3"
    [] d = 4 -> "4" [] d = 5 -> "5" [] d = 6 -> "6" [] d = 7 -> "7"
    [] d = 8 -> "8" [] d = 9 -> "9"

RECURSIVE TrimStart(_)
TrimStart(s) ==
  IF s # <<>> /\ Head(s) \in WhiteSpace THEN TrimStart(Tail(s)) ELSE s

RECURSIVE TrimEnd(_)
TrimEnd(s) ==
  IF s # <<>> /\ s[Len(s)] \in WhiteSpace
  THEN TrimEnd(SubSeq(s, 1, Len(s) - 1)) ELSE s

\* String.prototype.trim
Trim(s) == TrimEnd(TrimStart(s))

\* Decimal rendering of a non-negative integer (String(n), template literals).
RECURSIVE NatToStr(_)
NatToStr(n) ==
  IF n < 10 THEN <<DigitChar(n)>>
  ELSE NatToStr(n \div 10) \o <<DigitChar(n % 10)>>

IntToStr(n) == IF n < 0 THEN <<"-">> \o NatToStr(-n) ELSE NatToStr(n)

RECURSIVE DigitsToNat(_)
DigitsToNat(s) ==
  IF s = <<>> THEN 0
  ELSE 10 * DigitsToNat(SubSeq(s, 1, Len(s) - 1)) + DigitVal(s[Len(s)])

AllDigits(s) == s # <<>> /\ \A i \in 1..Len(s) : s[i] \in Digits

\* Number(v) for a string v: surrounding white space is ignored, the empty
\* string is 0, an optionally signed run of digits is its value, anything
\* else over the model's alphabet is NaN.
StrToNumber(v) ==
  LET w == Trim(v) IN
  IF w = <<>> THEN JNum(0)
  ELSE IF AllDigits(w) THEN JNum(DigitsToNat(w))
  ELSE IF Head(w) \in {"-", "+"} /\ AllDigits(Tail(w))
       THEN JNum((IF Head(w) = "-" THEN -1 ELSE 1) * DigitsToNat(Tail(w)))
  ELSE NaN

sUndefined == <<"u", "n", "d", "e", "f", "i", "n", "e", "d">>

\* String(x) for a cell.
JsString(c) ==
  CASE c.t = "str" -> c.s
    [] c.t = "num" -> IntToStr(c.n)
    [] c.t = "undef" -> sUndefined

\* ToNumber(x) for a cell, as the relational operators apply it.
ToNumber(c) ==
  CASE c.t = "str" -> StrToNumber(c.s)
    [] c.t = "num" -> JNum(c.n)
    [] c.t = "undef" -> NaN

\* a <= b on JavaScript numbers: false when either side is NaN.
JsLe(a, b) == ~a.nan /\ ~b.nan /\ a.v <= b.v

\* Array.prototype.map / filter on sequences.
Map(F(_), s) == [i \in 1..Len(s) |-> F(s[i])]

RECURSIVE Filter(_, _)
Filter(Test(_), s) ==
  IF s = <<>> THEN <<>>
  ELSE (IF Test(Head(s)) THEN <<Head(s)>> ELSE <<>>) \o Filter(Test, Tail(s))

Range(s) == {s[i] : i \in 1..Len(s)}


(***************************************************************************)
(* Output records and the pure helpers of the unified page                 *)
(***************************************************************************)

sYes == <<"Y", "e", "s">>

\* buildRowFromSerial: the eleven-field output record of one serial number.
buildRowFromSerial(serial) ==
  [availSerial |-> sYes, serialNo |-> serial,
   availLot |-> sYes, lotNo |-> <<>>,
   availPackage |-> sYes, packageNo |-> <<>>,
   qtyBase |-> 1, qtyToHandle |-> 1, applToItemEntry |-> 0,
   licenseKey |-> <<>>, binCode |-> <<>>]

\* getSequence: the letter/digit mask; parseInt of one character is a number
\* exactly for the ASCII digits.
getSequence(s) == [i \in 1..Len(s) |-> IF s[i] \in Digits THEN "N" ELSE "L"]

\* normalizeQty: numbers pass through, strings are trimmed; the empty string
\* is NaN, anything else goes through Number().
normalizeQty(q) ==
  IF q.t = "num" THEN JNum(q.n)
  ELSE LET v == Trim(IF q.t = "undef" THEN <<>> ELSE q.s) IN
       IF v = <<>> THEN NaN ELSE StrToNumber(v)

\* row[header]: undefined when the row object has no such key.
Get(row, h) == IF h \in DOMAIN row THEN row[h] ELSE Undef

\* x == null || String(x).trim() === ""
IsBlankCell(c) == c.t = "undef" \/ Trim(JsString(c)) = <<>>

sDash == <<" ", "-", " ">>

\* A group key that forgets the invoice.
GroupKeyOfPartOnly(row, mode, m) == JsString(Get(row, m.part))

\* The group key of a row (processData, lines 279-281).
GroupKeyOf(row, mode, m) ==
  IF mode = "invoice"
  THEN JsString(Get(row, m.part)) \o sDash \o JsString(Get(row, m.invoice))
  ELSE JsString(Get(row, m.part))

\* The required-field guards of the grouping reducer (lines 276-278).
RowIsGrouped(row, mode, m) ==
  /\ ~IsBlankCell(Get(row, m.part))
  /\ ~IsBlankCell(Get(row, m.serial))
  /\ (mode = "invoice" => ~IsBlankCell(Get(row, m.invoice)))

KeyIndex(acc, key) ==
  IF \E i \in 1..Len(acc) : acc[i].key = key
  THEN CHOOSE i \in 1..Len(acc) : acc[i].key = key
  ELSE 0

\* One step of parsedData.reduce: acc is the object under construction, kept
\* as the sequence of its own string keys in insertion order.
GroupStep(acc, row, mode, m) ==
  IF ~RowIsGrouped(row, mode, m) THEN acc
  ELSE LET key == GroupKeyOf(row, mode, m)
           i == KeyIndex(acc, key)
       IN IF i = 0 THEN Append(acc, [key |-> key, rows |-> <<row>>])
          ELSE [acc EXCEPT ![i].rows = Append(@, row)]

RECURSIVE GroupReduce(_, _, _, _)
GroupReduce(acc, rows, mode, m) ==
  IF rows = <<>> THEN acc
  ELSE GroupReduce(GroupStep(acc, Head(rows), mode, m), Tail(rows), mode, m)

\* A canonical array index ("0", "7", "12"): Object.entries lists such keys
\* first, in ascending numeric order, before the other keys.
IsArrayIndexKey(k) == AllDigits(k) /\ (Len(k) = 1 \/ k[1] # "0")

RECURSIVE SortByIndex(_)
SortByIndex(es) ==
  IF es = <<>> THEN <<>>
  ELSE LET i == CHOOSE i \in 1..Len(es) :
                  \A j \in 1..Len(es) :
                    DigitsToNat(es[i].key) <= DigitsToNat(es[j].key)
           rest == [j \in 1..(Len(es) - 1) |-> IF j < i THEN es[j] ELSE es[j + 1]]
       IN <<es[i]>> \o SortByIndex(rest)

IsIndexEntry(e) == IsArrayIndexKey(e.key)
IsNamedEntry(e) == ~IsArrayIndexKey(e.key)

\* Object.entries(groupedData)
ObjectEntries(acc) ==
  SortByIndex(Filter(IsIndexEntry, acc)) \o Filter(IsNamedEntry, acc)

\* The quantity guard of one row (lines 291-294).
QtyRetained(row, m) ==
  LET qn == normalizeQty(Get(row, m.qty)) IN ~qn.nan /\ qn.v <= 1

\* The serials of a group (lines 291-295).
GroupSerials(rows, m) ==
  LET keep(row) == QtyRetained(row, m)
      serialOf(row) == JsString(Get(row, m.serial))
      nonBlank(v) == Len(Trim(v)) > 0
  IN Filter(nonBlank, Map(serialOf, Filter(keep, rows)))

\* A validation loop that compares each serial with the one before it.
RECURSIVE ValidateFromPrevious(_, _, _, _)
ValidateFromPrevious(groupKey, serials, master, i) ==
  IF i > Len(serials) THEN <<>>
  ELSE LET cur == serials[i]
           ref == serials[i - 1]
           err == IF Len(cur) # Len(ref)
                  THEN <<[group |-> groupKey, serial |-> cur,
                          reason |-> "Length Mismatch"]>>
                  ELSE IF getSequence(cur) # getSequence(ref)
                  THEN <<[group |-> groupKey, serial |-> cur,
                          reason |-> "Sequence Mismatch"]>>
                  ELSE <<>>
       IN err \o ValidateFromPrevious(groupKey, serials, master, i + 1)

\* The validation loop over one group's serials (lines 298-310).
RECURSIVE ValidateFrom(_, _, _, _)
ValidateFrom(groupKey, serials, master, i) ==
  IF i > Len(serials) THEN <<>>
  ELSE LET cur == serials[i]
           err == IF Len(cur) # Len(master)
                  THEN <<[group |-> groupKey, serial |-> cur,
                          reason |-> "Length Mismatch"]>>
                  ELSE IF getSequence(cur) # getSequence(master)
                  THEN <<[group |-> groupKey, serial |-> cur,
                          reason |-> "Sequence Mismatch"]>>
                  ELSE <<>>
       IN err \o ValidateFrom(groupKey, serials, master, i + 1)

ValidateGroup(groupKey, serials, validate) ==
  IF validate /\ Len(serials) > 1
  THEN ValidateFrom(groupKey, serials, serials[1], 2)
  ELSE <<>>

\* A sheet that leaves out the serials the validation flagged.
GroupSheetWithoutMismatches(groupKey, serials, validate) ==
  LET flagged == {e.serial : e \in Range(ValidateGroup(groupKey, serials, validate))}
      clean(s) == s \notin flagged
  IN IF Len(serials) > 0
     THEN <<[sheetName |-> groupKey,
             data |-> Map(buildRowFromSerial, Filter(clean, serials))]>>
     ELSE <<>>

\* A sheet pushed for every group, with or without serials.
GroupSheetEvenIfEmpty(groupKey, serials, validate) ==
  <<[sheetName |-> groupKey, data |-> Map(buildRowFromSerial, serials)]>>

\* The sheet pushed for one group (line 311); none for an empty group.
GroupSheet(groupKey, serials, validate) ==
  IF Len(serials) > 0
  THEN <<[sheetName |-> groupKey, data |-> Map(buildRowFromSerial, serials)]>>
  ELSE <<>>

\* Object.entries(groupedData).forEach(...): finalSheets and validationErrors.
RECURSIVE ForEachGroup(_, _, _)
ForEachGroup(entries, m, validate) ==
  IF entries = <<>> THEN [sheets |-> <<>>, errors |-> <<>>]
  ELSE LET e == Head(entries)
           serials == GroupSerials(e.rows, m)
           rest == ForEachGroup(Tail(entries), m, validate)
       IN [sheets |-> GroupSheet(e.key, serials, validate) \o rest.sheets,
           errors |-> ValidateGroup(e.key, serials, validate) \o rest.errors]

\* An if in place of the while: one suffix is tried, never a second.
FreeNameOnce(existingNames, base, name, suffix) ==
  IF name \in existingNames
  THEN base \o <<" ", "(">> \o NatToStr(suffix) \o <<")">>
  ELSE name

\* The while loop of lines 320-322: the first free name among base,
\* base (1), base (2), ...
RECURSIVE FreeName(_, _, _, _)
FreeName(existingNames, base, name, suffix) ==
  IF name \in existingNames
  THEN FreeName(existingNames, base,
                base \o <<" ", "(">> \o NatToStr(suffix) \o <<")">>,
                suffix + 1)
  ELSE name

\* The sheets stored under their own names, in use or not.
UniquifyKeepingNames(existingNames, sheets) == sheets

\* finalSheets.map inside the state updater (lines 318-325).
RECURSIVE Uniquify(_, _)
Uniquify(existingNames, sheets) ==
  IF sheets = <<>> THEN <<>>
  ELSE LET s == Head(sheets)
           name == FreeName(existingNames, s.sheetName, s.sheetName, 1)
       IN <<[s EXCEPT !.sheetName = name]>>
          \o Uniquify(existingNames \cup {name}, Tail(sheets))


(***************************************************************************)
(* State of the page component (useState hooks) and work in flight         *)
(***************************************************************************)

VARIABLES
  sheetDataList,           \* SheetData[]: the Sheet Collection
  rawText,                 \* manual builder: pasted text
  columnIndex,             \* manual builder: column index
  sheetName,               \* manual builder: Sheet/Part name
  lotOnlyMode,             \* manual builder: Lot Mode check box
  hasHeader,               \* manual builder: Has Header check box
  editingSheetIndex,       \* 0-based index being edited, or NoIndex
  isLoading,
  notification,
  workbook,                \* the sheets of the loaded workbook, <<>> for null
  fileHeaders,
  parsedData,
  selected,                \* the four column selections (part, invoice, qty, serial)
  processingMode,
  validateSerials,
  mismatchedSerials,
  savedMapping,            \* localStorage["excelAppMappings"]: <<mapping>>, or NoSaved
  reads,                   \* FileReader loads in flight
  timers,                  \* setTimeout callbacks in flight
  awaits,                  \* async handlers suspended at an await
  secureContext,           \* navigator.clipboard && window.isSecureContext
  lastOp                   \* history: the handler that ran last and what it did

formVars == <<rawText, columnIndex, sheetName, lotOnlyMode, hasHeader>>
fileVars == <<workbook, fileHeaders, parsedData>>
optVars == <<selected, processingMode, validateSerials, savedMapping>>
asyncVars == <<reads, timers, awaits, secureContext>>

vars == <<sheetDataList, rawText, columnIndex, sheetName, lotOnlyMode,
          hasHeader, editingSheetIndex, isLoading, notification, workbook,
          fileHeaders, parsedData, selected, processingMode, validateSerials,
          mismatchedSerials, savedMapping, reads, timers, awaits, secureContext,
          lastOp>>

\* editingSheetIndex === null
NoIndex == -1

\* localStorage.getItem(...) === null
NoSaved == <<>>

NoSelection == [part |-> <<>>, invoice |-> <<>>, qty |-> <<>>, serial |-> <<>>]

Note(type, msg, args) == [type |-> type, msg |-> msg, args |-> args]
NoNotification == Note("none", "", <<>>)

\* History of the last step: the handler (and its outcome), an index argument,
\* and what it handed to an external collaborator.
Op(name, arg) == [name |-> name, arg |-> arg, out |-> <<>>]

\* A slot of a JavaScript array that holds no Sheet: a hole left by an
\* assignment past the end, and the undefined a spread makes of a hole.
Hole == [sheetName |-> <<"<hole>">>, data |-> <<>>]
UndefinedSlot == [sheetName |-> <<"<undefined>">>, data |-> <<>>]
IsSheet(s) == s \notin {Hole, UndefinedSlot}

\* [...array]: a spread reads holes as undefined.
Spread(list) == [i \in 1..Len(list) |-> IF list[i] = Hole THEN UndefinedSlot ELSE list[i]]

\* The list rendering (sheetDataList.map(s => ... s.sheetName ...)) throws on
\* an undefined element, which unmounts the page: no handler runs afterwards.
Mounted == \A i \in 1..Len(sheetDataList) : sheetDataList[i] # UndefinedSlot

sheetNames == [i \in 1..Len(workbook) |-> workbook[i].name]

(***************************************************************************)
(* File upload: processUploadedFile, reader.onload, parseSheet             *)
(***************************************************************************)

sEmptyHeader == <<"_", "_", "E", "M", "P", "T", "Y">>

\* String(h ?? "").trim(), "__EMPTY" when blank (lines 151-152).
HeaderName(h) ==
  LET name == Trim(IF h.t = "undef" THEN <<>> ELSE JsString(h)) IN
  IF name = <<>> THEN sEmptyHeader ELSE name

\* rawHeaders.map with the seen-counter (lines 149-156).
uniqueHeadersOf(rawHeaders) ==
  [i \in 1..Len(rawHeaders) |->
     LET name == HeaderName(rawHeaders[i])
         count == Cardinality({j \in 1..(i - 1) : HeaderName(rawHeaders[j]) = name})
     IN IF count = 0 THEN name ELSE name \o <<"_">> \o NatToStr(count)]

\* row.some(cell => cell !== null && cell !== ""): holes are skipped.
NonEmptyRow(row) ==
  Len(row) > 0 /\ \E i \in 1..Len(row) : row[i] # Undef /\ row[i] # Str(<<>>)

\* One rowObject (lines 160-166): a later column overwrites an earlier one of
\* the same resulting name; a missing cell becomes "".
RowObject(headers, rowArray) ==
  [h \in Range(headers) |->
     LET index == CHOOSE i \in 1..Len(headers) :
                    headers[i] = h /\ \A j \in (i + 1)..Len(headers) : headers[j] # h
         cell == IF index <= Len(rowArray) THEN rowArray[index] ELSE Undef
     IN IF cell = Undef THEN Str(<<>>) ELSE cell]

\* loadMapping: each saved selection is applied when the headers include it.
loadMappingInto(sel, currentHeaders, saved) ==
  IF saved = NoSaved THEN sel
  ELSE LET mapping == saved[1] IN
       [part |-> IF mapping.part \in Range(currentHeaders) THEN mapping.part ELSE sel.part,
        invoice |-> IF mapping.invoice \in Range(currentHeaders)
                    THEN mapping.invoice ELSE sel.invoice,
        qty |-> IF mapping.qty \in Range(currentHeaders) THEN mapping.qty ELSE sel.qty,
        serial |-> IF mapping.serial \in Range(currentHeaders)
                   THEN mapping.serial ELSE sel.serial]

SheetIndex(wb, name) ==
  IF \E i \in 1..Len(wb) : wb[i].name = name
  THEN CHOOSE i \in 1..Len(wb) : wb[i].name = name
  ELSE 0

\* parseSheet as a state change: the new (fileHeaders, parsedData, selected,
\* notification); on a throw only the notification changes.
parseSheet(wb, sheetNameToParse) ==
  LET k == SheetIndex(wb, sheetNameToParse)
      dataAsArray == IF k = 0 THEN <<>> ELSE wb[k].grid
      nonEmptyRows == Filter(NonEmptyRow, dataAsArray)
  IN IF k = 0
     THEN [ok |-> FALSE, note |-> Note("error", "parse-failed-not-found", <<>>)]
     ELSE IF Len(nonEmptyRows) < 2
     THEN [ok |-> FALSE, note |-> Note("error", "parse-failed-empty", <<>>)]
     ELSE LET uniqueHeaders == uniqueHeadersOf(nonEmptyRows[1])
              dataRows == Tail(nonEmptyRows)
              toObject(rowArray) == RowObject(uniqueHeaders, rowArray)
          IN [ok |-> TRUE,
              headers |-> uniqueHeaders,
              rows |-> Map(toObject, dataRows),
              sel |-> loadMappingInto(selected, uniqueHeaders, savedMapping),
              note |-> Note("success", "sheet-loaded", <<>>)]


(***************************************************************************)
(* Manual builder helpers                                                  *)
(***************************************************************************)

\* String.prototype.split on a one-character separator.
RECURSIVE SplitFrom(_, _, _)
SplitFrom(s, sep, cur) ==
  IF s = <<>> THEN <<cur>>
  ELSE IF Head(s) = sep THEN <<cur>> \o SplitFrom(Tail(s), sep, <<>>)
  ELSE SplitFrom(Tail(s), sep, Append(cur, Head(s)))

Split(s, sep) == SplitFrom(s, sep, <<>>)

\* Array.prototype.join
RECURSIVE Join(_, _)
Join(parts, sep) ==
  IF parts = <<>> THEN <<>>
  ELSE IF Len(parts) = 1 THEN parts[1]
  ELSE parts[1] \o sep \o Join(Tail(parts), sep)

Includes(s, c) == \E i \in 1..Len(s) : s[i] = c

\* rawText.split("\n").filter(line => line.trim() !== "")
NonBlankLines(text) ==
  LET nonBlank(line) == Trim(line) # <<>> IN Filter(nonBlank, Split(text, "\n"))

\* The lines when the header line is taken off before the blank lines.
SlicedLinesHeaderFirst(text, header) ==
  LET nonBlank(line) == Trim(line) # <<>>
      all == Split(text, "\n")
  IN Filter(nonBlank, IF header THEN Tail(all) ELSE all)

\* hasHeader ? lines.slice(1) : lines
SlicedLines(text, header) ==
  LET lines == NonBlankLines(text) IN
  IF header THEN (IF lines = <<>> THEN <<>> ELSE Tail(lines)) ELSE lines

\* A line split on comma when it contains one, else on tab.
ColumnsCommaFirst(line) ==
  IF Includes(line, ",") THEN Split(line, ",") ELSE Split(line, "\t")

\* A line split on tab when it contains one, else on comma.
Columns(line) == IF Includes(line, "\t") THEN Split(line, "\t") ELSE Split(line, ",")

\* The undefined a missing field yields, kept apart from every string.
Absent == <<"<undefined>">>

\* The field when a negative index counts from the end of the line.
FieldAtFromEnd(line, index) ==
  LET cols == Columns(line)
      at == IF index < 0 THEN Len(cols) + index ELSE index
  IN IF at >= 0 /\ at < Len(cols) THEN Trim(cols[at + 1]) ELSE Absent

\* cols[columnIndex]?.trim()
FieldAt(line, index) ==
  LET cols == Columns(line) IN
  IF index >= 0 /\ index < Len(cols) THEN Trim(cols[index + 1]) ELSE Absent

\* The entries when only missing fields are dropped and blank ones are kept.
EntriesOfKeepingBlank(text, header, index) ==
  LET fieldOf(line) == FieldAt(line, index)
      defined(v) == v # Absent
  IN Filter(defined, Map(fieldOf, SlicedLines(text, header)))

\* The entries of the manual builder (lines 442-446): .filter(Boolean) drops
\* undefined and the empty string.
EntriesOf(text, header, index) ==
  LET fieldOf(line) == FieldAt(line, index)
      truthy(v) == v # Absent /\ v # <<>>
  IN Filter(truthy, Map(fieldOf, SlicedLines(text, header)))

\* buildSheetDataFromText (lines 375-377).
buildSheetDataFromText(entries, lotOnly) ==
  LET build(value) ==
        [buildRowFromSerial(IF lotOnly THEN <<>> ELSE value)
           EXCEPT !.lotNo = IF lotOnly THEN value ELSE <<>>]
  IN Map(build, entries)

sSheet == <<"S", "h", "e", "e", "t", " ">>
sManual == <<"M", "a", "n", "u", "a", "l">>

\* sheetName.trim() || `Sheet ${sheetDataList.length + 1}`
finalSheetNameOf(name, list) ==
  IF Trim(name) # <<>> THEN Trim(name) ELSE sSheet \o NatToStr(Len(list) + 1)

\* updatedList[index] = newSheet on a copy of the list; an index past the end
\* lengthens the array and leaves holes in between (index is 0-based).
AssignAt(list, index, sheet) ==
  [i \in 1..(IF index + 1 > Len(list) THEN index + 1 ELSE Len(list)) |->
     IF i = index + 1 THEN sheet
     ELSE IF i <= Len(list) THEN list[i] ELSE Hole]

\* prev.filter((_, i) => i !== index): filter skips holes.
RemoveAt(list, index) ==
  LET keep == {i \in 1..Len(list) : i # index + 1 /\ list[i] # Hole}
      nth(k) == CHOOSE i \in keep : Cardinality({j \in keep : j < i}) = k - 1
  IN [k \in 1..Cardinality(keep) |-> list[nth(k)]]

\* The required mappings of the active mode are all selected.
IsReady(mode, m) ==
  /\ m.part # <<>> /\ m.qty # <<>> /\ m.serial # <<>>
  /\ (mode = "invoice" => m.invoice # <<>>)

\* The headers the active mode needs (lines 240-242 and 393-395).
Needed(mode, m) ==
  IF mode = "invoice" THEN <<m.part, m.invoice, m.qty, m.serial>>
  ELSE <<m.part, m.qty, m.serial>>

\* The report when only the first missing header is named.
MissingHeadersFirstOnly(mode, m, headers) ==
  LET absent(h) == h \notin Range(headers)
      missing == Filter(absent, Needed(mode, m))
  IN IF missing = <<>> THEN <<>> ELSE <<Head(missing)>>

MissingHeaders(mode, m, headers) ==
  LET absent(h) == h \notin Range(headers) IN Filter(absent, Needed(mode, m))

\* buildParsedRowsFromManual (lines 380-419): ok is FALSE when it throws.
buildParsedRowsFromManual(entries, name, mode, m, headers) ==
  IF ~IsReady(mode, m) THEN [ok |-> FALSE, note |-> Note("error", "map-columns-first", <<>>)]
  ELSE IF MissingHeaders(mode, m, headers) # <<>>
  THEN [ok |-> FALSE,
        note |-> Note("error", "columns-not-in-current-file",
                      MissingHeaders(mode, m, headers))]
  ELSE LET partValue == IF Trim(name) # <<>> THEN Trim(name) ELSE sManual
           nonEmpty(v) == Len(v) > 0
           \* later assignments to the same key overwrite earlier ones
           rowOf(value) ==
             [h \in Range(Needed(mode, m)) |->
                IF h = m.serial THEN Str(value)
                ELSE IF h = m.qty THEN Num(1)
                ELSE IF mode = "invoice" /\ h = m.invoice THEN Str(sManual)
                ELSE Str(partValue)]
       IN [ok |-> TRUE, rows |-> Map(rowOf, Filter(nonEmpty, Map(Trim, entries)))]


(***************************************************************************)
(* Bounds and the inputs the user can supply                               *)
(***************************************************************************)

\* Appends are explored while the collection holds at most MaxSheets slots.
MaxSheets == 3
\* File reads, timers and suspended handlers in flight at one time.
MaxReads == 1
MaxTimers == 1
MaxAwaits == 1

hP == <<"P">>
hI == <<"I">>
hQ == <<"Q">>
hS == <<"S">>

StdMapping == [part |-> hP, invoice |-> hI, qty |-> hQ, serial |-> hS]

\* A data row of an uploaded sheet under the headers P, I, Q, S.
GridRow(p, i, q, s) == <<p, i, q, s>>
HeaderRow == <<Str(hP), Str(hI), Str(hQ), Str(hS)>>

sP1 == <<"P", "1">>
sI1 == <<"I", "1">>

\* An undecodable file, a sheet with a header row only, and a sheet with one
\* part/invoice group: two unit-quantity serials of different length and one
\* row of quantity 2.
FileBad == [readable |-> FALSE, sheets |-> <<>>]
FileHeaderOnly ==
  [readable |-> TRUE,
   sheets |-> <<[name |-> <<"E">>, grid |-> <<HeaderRow>>]>>]
FileGood ==
  [readable |-> TRUE,
   sheets |-> <<[name |-> <<"G">>,
                 grid |-> <<HeaderRow,
                            GridRow(Str(sP1), Str(sI1), Str(<<"1">>), Str(<<"A", "1">>)),
                            GridRow(Str(sP1), Str(sI1), Num(1), Str(<<"B", "2", "2">>)),
                            GridRow(Str(sP1), Str(sI1), Str(<<"2">>), Str(<<"A", "9">>))>>]>>]

Files == {FileBad, FileHeaderOnly, FileGood}

\* What the user types into the manual builder before pressing a button.
Form(text, name, index, lot, header) ==
  [rawText |-> text, sheetName |-> name, columnIndex |-> index,
   lotOnlyMode |-> lot, hasHeader |-> header]

FormSerials == Form(<<"A", "1", "\n", "A", "2">>, <<"K">>, 0, FALSE, FALSE)
FormLots ==
  Form(<<"H", "\t", "z", "\n", "L", "1", "\t", "x", ",", "y">>, <<>>, 0, TRUE, TRUE)

Forms == {FormSerials, FormLots}


(***************************************************************************)
(* Initial state: the values passed to useState, nothing in flight         *)
(***************************************************************************)

\* secure tells whether the page runs in a secure context with the native
\* clipboard: there copyTextSafe really suspends its caller; otherwise the
\* fallback path runs and the caller continues before any other event.
InitWith(secure) ==
  /\ secureContext = secure
  /\ sheetDataList = <<>>
  /\ rawText = <<>>
  /\ columnIndex = 0
  /\ sheetName = <<>>
  /\ lotOnlyMode = FALSE
  /\ hasHeader = FALSE
  /\ editingSheetIndex = NoIndex
  /\ isLoading = FALSE
  /\ notification = NoNotification
  /\ workbook = <<>>
  /\ fileHeaders = <<>>
  /\ parsedData = <<>>
  /\ selected = NoSelection
  /\ processingMode = "invoice"
  /\ validateSerials = TRUE
  /\ mismatchedSerials = <<>>
  /\ savedMapping = NoSaved
  /\ reads = <<>>
  /\ timers = <<>>
  /\ awaits = <<>>
  /\ lastOp = Op("init", 0)

DropAt(s, i) == [j \in 1..(Len(s) - 1) |-> IF j < i THEN s[j] ELSE s[j + 1]]

(***************************************************************************)
(* Upload                                                                  *)
(***************************************************************************)

\* A file whose upload ends in an error message: XLSX.read throws, or the
\* only sheet has fewer than two non-empty rows.
FileFails(file) ==
  \/ ~file.readable
  \/ Len(file.sheets) = 1 /\ ~parseSheet(file.sheets, file.sheets[1].name).ok

\* processUploadedFile (lines 185-222), up to reader.readAsArrayBuffer: the
\* preview state is reset, the Sheet Collection is left alone.  lastOp tells
\* whether the file is one that fails (0) or loads (1).
processUploadedFile(file) ==
  /\ Mounted
  /\ Len(reads) < MaxReads
  /\ isLoading' = TRUE
  /\ notification' = NoNotification
  /\ fileHeaders' = <<>>
  /\ parsedData' = <<>>
  /\ workbook' = <<>>
  /\ reads' = Append(reads, file)
  /\ lastOp' = Op("processUploadedFile", IF FileFails(file) THEN 0 ELSE 1)
  /\ UNCHANGED <<secureContext, sheetDataList, formVars, editingSheetIndex, optVars,
                 mismatchedSerials, timers, awaits>>

\* Reads in flight at one time when uploads overlap.
MaxOverlappingReads == 2

\* processUploadedFile (lines 185-222) called again, by a second file choice
\* or drop, while an earlier read is still in flight: a new FileReader is
\* started and the earlier one is left alone.
processUploadedFileDuringRead(file) ==
  /\ Mounted
  /\ Len(reads) \in 1..(MaxOverlappingReads - 1)
  /\ isLoading' = TRUE
  /\ notification' = NoNotification
  /\ fileHeaders' = <<>>
  /\ parsedData' = <<>>
  /\ workbook' = <<>>
  /\ reads' = Append(reads, file)
  /\ lastOp' = Op("processUploadedFileDuringRead", IF FileFails(file) THEN 0 ELSE 1)
  /\ UNCHANGED <<secureContext, sheetDataList, formVars, editingSheetIndex, optVars,
                 mismatchedSerials, timers, awaits>>

\* A read callback that does nothing when a later read has been started.
readerOnloadUnlessSuperseded(i) ==
  /\ Mounted
  /\ i \in 1..Len(reads)
  /\ reads' = DropAt(reads, i)
  /\ isLoading' = FALSE
  /\ IF i = Len(reads) /\ reads[i].readable
     THEN LET parsed == parseSheet(reads[i].sheets, reads[i].sheets[1].name) IN
          /\ workbook' = reads[i].sheets
          /\ fileHeaders' = IF parsed.ok THEN parsed.headers ELSE fileHeaders
          /\ parsedData' = IF parsed.ok THEN parsed.rows ELSE parsedData
          /\ selected' = IF parsed.ok THEN parsed.sel ELSE selected
          /\ notification' = parsed.note
     ELSE UNCHANGED <<fileVars, selected, notification>>
  /\ lastOp' = Op("readerOnload", IF FileFails(reads[i]) THEN 0 ELSE 1)
  /\ UNCHANGED <<secureContext, sheetDataList, formVars, editingSheetIndex, processingMode,
                 validateSerials, savedMapping, mismatchedSerials, timers, awaits>>

\* reader.onload (lines 197-220) of the i-th read in flight.
readerOnload(i) ==
  /\ Mounted
  /\ i \in 1..Len(reads)
  /\ LET file == reads[i]
         parsed == parseSheet(file.sheets, file.sheets[1].name)
     IN /\ reads' = DropAt(reads, i)
        /\ isLoading' = FALSE
        /\ IF ~file.readable
           THEN /\ notification' = Note("error", "read-failed", <<>>)
                /\ UNCHANGED <<fileVars, selected>>
           ELSE /\ workbook' = file.sheets
                /\ IF Len(file.sheets) = 1
                   THEN IF parsed.ok
                        THEN /\ fileHeaders' = parsed.headers
                             /\ parsedData' = parsed.rows
                             /\ selected' = parsed.sel
                             /\ notification' = parsed.note
                        ELSE /\ notification' = parsed.note
                             /\ UNCHANGED <<fileHeaders, parsedData, selected>>
                   ELSE /\ notification' =
                             Note("success", "workbook-loaded", <<>>)
                        /\ UNCHANGED <<fileHeaders, parsedData, selected>>
        /\ lastOp' = Op("readerOnload", IF FileFails(file) THEN 0 ELSE 1)
  /\ UNCHANGED <<secureContext, sheetDataList, formVars, editingSheetIndex, processingMode,
                 validateSerials, savedMapping, mismatchedSerials, timers, awaits>>

\* The sheet <select> of a multi-sheet workbook: parseSheet(workbook, name).
selectSheet(k) ==
  /\ Mounted
  /\ Len(workbook) > 1 /\ ~isLoading
  /\ k \in 1..Len(workbook)
  /\ LET parsed == parseSheet(workbook, workbook[k].name)
     IN IF parsed.ok
        THEN /\ fileHeaders' = parsed.headers
             /\ parsedData' = parsed.rows
             /\ selected' = parsed.sel
             /\ notification' = parsed.note
        ELSE /\ notification' = parsed.note
             /\ UNCHANGED <<fileHeaders, parsedData, selected>>
  /\ lastOp' = Op("selectSheet", k)
  /\ UNCHANGED <<sheetDataList, formVars, editingSheetIndex, isLoading, workbook,
                 processingMode, validateSerials, savedMapping, mismatchedSerials,
                 asyncVars>>

(***************************************************************************)
(* Mode, column mapping and validation switch                              *)
(***************************************************************************)

\* The mapping card is rendered when fileHeaders.length > 0 && !isLoading.
CardVisible == Len(fileHeaders) > 0 /\ ~isLoading

setProcessingMode(mode) ==
  /\ Mounted /\ CardVisible
  /\ processingMode' = mode
  /\ lastOp' = Op("setProcessingMode", 0)
  /\ UNCHANGED <<sheetDataList, formVars, editingSheetIndex, isLoading, notification,
                 fileVars, selected, validateSerials, savedMapping, mismatchedSerials,
                 asyncVars>>

\* The four column <select>s, set one after the other to the mapping m; each
\* option is one of the file's headers.
selectColumns(m) ==
  /\ Mounted /\ CardVisible
  /\ Range(Needed("invoice", m)) \subseteq Range(fileHeaders)
  /\ selected' = m
  /\ lastOp' = Op("selectColumns", 0)
  /\ UNCHANGED <<sheetDataList, formVars, editingSheetIndex, isLoading, notification,
                 fileVars, processingMode, validateSerials, savedMapping,
                 mismatchedSerials, asyncVars>>

setValidateSerials(flag) ==
  /\ Mounted /\ CardVisible
  /\ validateSerials' = flag
  /\ lastOp' = Op("setValidateSerials", 0)
  /\ UNCHANGED <<sheetDataList, formVars, editingSheetIndex, isLoading, notification,
                 fileVars, selected, processingMode, savedMapping, mismatchedSerials,
                 asyncVars>>

\* saveMapping (lines 352-361)
saveMapping ==
  /\ Mounted /\ CardVisible
  /\ savedMapping' = <<selected>>
  /\ notification' = Note("success", "mapping-saved", <<>>)
  /\ lastOp' = Op("saveMapping", 0)
  /\ UNCHANGED <<sheetDataList, formVars, editingSheetIndex, isLoading, fileVars,
                 selected, processingMode, validateSerials, mismatchedSerials,
                 asyncVars>>

\* The Load button: loadMapping(fileHeaders) (lines 363-373)
loadMapping ==
  /\ Mounted /\ CardVisible
  /\ selected' = loadMappingInto(selected, fileHeaders, savedMapping)
  /\ notification' = IF savedMapping = NoSaved THEN notification
                     ELSE Note("success", "mapping-loaded", <<>>)
  /\ lastOp' = Op("loadMapping", 0)
  /\ UNCHANGED <<sheetDataList, formVars, editingSheetIndex, isLoading, fileVars,
                 processingMode, validateSerials, savedMapping, mismatchedSerials,
                 asyncVars>>


(***************************************************************************)
(* processData (lines 253-350)                                             *)
(***************************************************************************)

\* What a handler created by one render reads: the state of that render.
Closure ==
  [parsedData |-> parsedData, fileHeaders |-> fileHeaders, selected |-> selected,
   processingMode |-> processingMode, validateSerials |-> validateSerials]

\* finalSheets and validationErrors of a run over the closure's rows.
RunResult(c) ==
  ForEachGroup(
    ObjectEntries(GroupReduce(<<>>, c.parsedData, c.processingMode, c.selected)),
    c.selected, c.validateSerials)

\* new Set(prev.map(s => s.sheetName)): map skips holes.
ExistingNames(list) == {list[i].sheetName : i \in {j \in 1..Len(list) : IsSheet(list[j])}}

\* The three early returns of processData (lines 254-263), in order.
EarlyReturn(c) ==
  IF ~IsReady(c.processingMode, c.selected)
  THEN Note("error", "select-required-columns", <<>>)
  ELSE IF Len(c.parsedData) = 0 THEN Note("error", "no-data-rows", <<>>)
  ELSE IF MissingHeaders(c.processingMode, c.selected, c.fileHeaders) # <<>>
  THEN Note("error", "columns-not-found",
            MissingHeaders(c.processingMode, c.selected, c.fileHeaders))
  ELSE NoNotification

\* The notification of lines 338-343.
FinishNote(errors, count) ==
  IF Len(errors) > 0 THEN Note("warning", "validation-warnings", <<Len(errors)>>)
  ELSE Note("success", "sheets-created", <<count>>)

Suspended(kind, name, errors, count, restore) ==
  [kind |-> kind, name |-> name, errors |-> errors, count |-> count,
   restore |-> restore]

\* processData run to its first suspending await (or to its end when no
\* await suspends it), reading the closure c.  restore is <<rows>> when the
\* run was started by runProcessingPipeline, whose .finally puts the previous
\* rows back.  lastOp records under the name op how many slots the collection
\* had before the run appended to it, or -1 for an early return, and the
\* closure the run read.
processDataRun(c, restore, op) ==
  LET early == EarlyReturn(c)
      result == RunResult(c)
      uniqued == Uniquify(ExistingNames(sheetDataList), result.sheets)
  IN IF early # NoNotification
     THEN /\ notification' = early
          /\ parsedData' = IF restore = <<>> THEN parsedData ELSE restore[1]
          /\ lastOp' = [Op(op, -1) EXCEPT !.out = c]
          /\ UNCHANGED <<sheetDataList, isLoading, mismatchedSerials, awaits>>
     ELSE /\ Len(sheetDataList) + Len(result.sheets) <= MaxSheets
          /\ lastOp' = [Op(op, Len(sheetDataList)) EXCEPT !.out = c]
          /\ sheetDataList' = Spread(sheetDataList) \o uniqued
          /\ IF uniqued = <<>> \/ ~secureContext
             THEN /\ isLoading' = FALSE
                  /\ mismatchedSerials' = result.errors
                  /\ notification' = FinishNote(result.errors, Len(result.sheets))
                  /\ parsedData' = IF restore = <<>> THEN parsedData ELSE restore[1]
                  /\ UNCHANGED awaits
             ELSE /\ Len(awaits) < MaxAwaits
                  /\ isLoading' = TRUE
                  /\ mismatchedSerials' = <<>>
                  /\ notification' = NoNotification
                  /\ awaits' = Append(awaits,
                        Suspended("processData", <<>>, result.errors,
                                  Len(result.sheets), restore))
                  /\ UNCHANGED parsedData

\* The Process File button; it is disabled while loading, without rows, or
\* with an incomplete mapping (line 131).
processButtonDisabled ==
  isLoading \/ Len(parsedData) = 0 \/ ~IsReady(processingMode, selected)

processData ==
  /\ Mounted /\ CardVisible
  /\ ~processButtonDisabled
  /\ processDataRun(Closure, <<>>, "processData")
  /\ UNCHANGED <<secureContext, formVars, editingSheetIndex, workbook, fileHeaders, optVars,
                 reads, timers>>

\* A timer that is dropped without its callback running.
timerFiresNever(i) ==
  /\ Mounted
  /\ i \in 1..Len(timers)
  /\ timers' = DropAt(timers, i)
  /\ lastOp' = Op("timerFires", -1)
  /\ UNCHANGED <<secureContext, sheetDataList, formVars, editingSheetIndex, isLoading,
                 notification, fileVars, optVars, mismatchedSerials, reads, awaits>>

\* The setTimeout callback of runProcessingPipeline (lines 432-437): the
\* processData of the render that scheduled it.
timerFires(i) ==
  /\ Mounted
  /\ i \in 1..Len(timers)
  /\ processDataRun(timers[i], <<timers[i].parsedData>>, "timerFires")
  /\ timers' = DropAt(timers, i)
  /\ UNCHANGED <<secureContext, formVars, editingSheetIndex, workbook, fileHeaders, optVars, reads>>

\* A resumption that takes the collection back when the copy failed.
resumeUndoing(i, copied) ==
  /\ Mounted
  /\ i \in 1..Len(awaits)
  /\ awaits' = DropAt(awaits, i)
  /\ sheetDataList' = IF copied THEN sheetDataList ELSE <<>>
  /\ notification' = Note(IF copied THEN "success" ELSE "error", "copied", <<>>)
  /\ isLoading' = FALSE
  /\ lastOp' = Op("resume", IF copied THEN 1 ELSE 0)
  /\ UNCHANGED <<secureContext, formVars, editingSheetIndex, fileVars, optVars,
                 mismatchedSerials, reads, timers>>

\* A suspended async handler resumes after its clipboard writes; copied says
\* whether copyTextSafe returned or threw.
resume(i, copied) ==
  /\ Mounted
  /\ i \in 1..Len(awaits)
  /\ awaits' = DropAt(awaits, i)
  /\ LET a == awaits[i] IN
     IF a.kind = "processData"
     THEN \* lines 338-349, then the .finally of line 433
          /\ mismatchedSerials' =
               IF Len(a.errors) > 0 THEN a.errors ELSE mismatchedSerials
          /\ notification' = FinishNote(a.errors, a.count)
          /\ isLoading' = FALSE
          /\ parsedData' = IF a.restore = <<>> THEN parsedData ELSE a.restore[1]
          /\ UNCHANGED <<rawText, sheetName, editingSheetIndex>>
     ELSE IF a.kind = "copy"
     THEN \* handleCopySheet, lines 539-545
          /\ notification' =
               IF copied THEN Note("success", "copied", <<>>)
               ELSE Note("error", "copy-failed", <<>>)
          /\ UNCHANGED <<mismatchedSerials, isLoading, parsedData, rawText,
                         sheetName, editingSheetIndex>>
     ELSE \* handleAddOrUpdateSheet, lines 473-480
          /\ notification' =
               IF copied THEN Note("success", "added-and-copied", <<>>)
               ELSE Note("warning", "added-copy-failed", <<>>)
          /\ rawText' = <<>>
          /\ sheetName' = <<>>
          /\ editingSheetIndex' = NoIndex
          /\ UNCHANGED <<mismatchedSerials, isLoading, parsedData>>
  /\ lastOp' = Op("resume", IF copied THEN 1 ELSE 0)
  /\ UNCHANGED <<secureContext, sheetDataList, columnIndex, lotOnlyMode, hasHeader, workbook,
                 fileHeaders, optVars, reads, timers>>


(***************************************************************************)
(* Manual builder, Edit, Delete, Export                                    *)
(***************************************************************************)

\* The user fills the text area, the name, the index and the check boxes.
typeForm(f) ==
  /\ Mounted
  /\ rawText' = f.rawText
  /\ sheetName' = f.sheetName
  /\ columnIndex' = f.columnIndex
  /\ lotOnlyMode' = f.lotOnlyMode
  /\ hasHeader' = f.hasHeader
  /\ lastOp' = Op("typeForm", 0)
  /\ UNCHANGED <<sheetDataList, editingSheetIndex, isLoading, notification, fileVars,
                 optVars, mismatchedSerials, asyncVars>>

\* handleAddOrUpdateSheet (lines 441-481): up to its await in a secure
\* context, to its end otherwise; copied is the outcome of copyTextSafe.
handleAddOrUpdateSheet(copied) ==
  /\ Mounted
  /\ LET entries == EntriesOf(rawText, hasHeader, columnIndex)
         finalSheetName == finalSheetNameOf(sheetName, sheetDataList)
         newSheet == [sheetName |-> finalSheetName,
                      data |-> buildSheetDataFromText(entries, lotOnlyMode)]
     IN IF Len(entries) = 0
        THEN /\ notification' = Note("error", "no-valid-entries", <<>>)
             /\ lastOp' = Op("rawRejected", 0)
             /\ UNCHANGED <<sheetDataList, awaits, rawText, sheetName,
                            editingSheetIndex>>
        ELSE /\ IF editingSheetIndex # NoIndex
                THEN /\ sheetDataList' =
                          AssignAt(Spread(sheetDataList), editingSheetIndex, newSheet)
                     /\ lastOp' = Op("rawUpdate", editingSheetIndex)
                ELSE /\ Len(sheetDataList) < MaxSheets
                     /\ sheetDataList' = Append(Spread(sheetDataList), newSheet)
                     /\ lastOp' = Op("rawAdd", Len(sheetDataList))
             /\ IF secureContext
                THEN /\ Len(awaits) < MaxAwaits
                     /\ awaits' = Append(awaits, Suspended("add", <<>>, <<>>, 0, <<>>))
                     /\ UNCHANGED <<notification, rawText, sheetName,
                                    editingSheetIndex>>
                ELSE /\ notification' =
                          IF copied THEN Note("success", "added-and-copied", <<>>)
                          ELSE Note("warning", "added-copy-failed", <<>>)
                     /\ rawText' = <<>>
                     /\ sheetName' = <<>>
                     /\ editingSheetIndex' = NoIndex
                     /\ UNCHANGED awaits
  /\ UNCHANGED <<secureContext, columnIndex, lotOnlyMode, hasHeader, isLoading,
                 fileVars, optVars, mismatchedSerials, reads, timers>>

\* handleProcessManual (lines 484-505) with runProcessingPipeline (422-438):
\* the timer keeps the processData of this render.
handleProcessManual ==
  /\ Mounted
  /\ LET entries == EntriesOf(rawText, hasHeader, columnIndex)
         built == buildParsedRowsFromManual(entries, sheetName, processingMode,
                                            selected, fileHeaders)
     IN IF Len(entries) = 0
        THEN /\ notification' = Note("error", "no-valid-entries", <<>>)
             /\ lastOp' = Op("manualRejected", 0)
             /\ UNCHANGED <<rawText, sheetName, editingSheetIndex, isLoading,
                            parsedData, mismatchedSerials, timers>>
        ELSE IF ~built.ok
        THEN /\ notification' = built.note
             /\ lastOp' = Op("manualThrew", 0)
             /\ UNCHANGED <<rawText, sheetName, editingSheetIndex, isLoading,
                            parsedData, mismatchedSerials, timers>>
        ELSE /\ Len(timers) < MaxTimers
             /\ isLoading' = TRUE
             /\ notification' = NoNotification
             /\ mismatchedSerials' = <<>>
             /\ parsedData' = built.rows
             /\ timers' = Append(timers, Closure)
             /\ rawText' = <<>>
             /\ sheetName' = <<>>
             /\ editingSheetIndex' = NoIndex
             /\ lastOp' = Op("manualScheduled", 0)
  /\ UNCHANGED <<secureContext, sheetDataList, columnIndex, lotOnlyMode, hasHeader, workbook,
                 fileHeaders, optVars, reads, awaits>>

\* The Column Index input (line 704) and the Has Header checkbox (line 707).
setColumnIndex(n) ==
  /\ Mounted
  /\ columnIndex' = n
  /\ lastOp' = Op("setColumnIndex", n)
  /\ UNCHANGED <<sheetDataList, rawText, sheetName, lotOnlyMode, hasHeader,
                 editingSheetIndex, isLoading, notification, fileVars, optVars,
                 mismatchedSerials, asyncVars>>

toggleHasHeader ==
  /\ Mounted
  /\ hasHeader' = ~hasHeader
  /\ lastOp' = Op("toggleHasHeader", 0)
  /\ UNCHANGED <<sheetDataList, rawText, sheetName, lotOnlyMode, columnIndex,
                 editingSheetIndex, isLoading, notification, fileVars, optVars,
                 mismatchedSerials, asyncVars>>

\* handleEditSheet (lines 548-558); only rendered Sheets have an Edit button.
handleEditSheet(index) ==
  /\ Mounted
  /\ index \in 0..(Len(sheetDataList) - 1)
  /\ IsSheet(sheetDataList[index + 1])
  /\ LET sheet == sheetDataList[index + 1]
         isLot == \E i \in 1..Len(sheet.data) : sheet.data[i].lotNo # <<>>
         value(row) == IF isLot THEN row.lotNo ELSE row.serialNo
     IN /\ rawText' = Join(Map(value, sheet.data), <<"\n">>)
        /\ sheetName' = sheet.sheetName
        /\ lotOnlyMode' = isLot
        /\ editingSheetIndex' = index
  /\ lastOp' = Op("handleEditSheet", index)
  /\ UNCHANGED <<sheetDataList, columnIndex, hasHeader, isLoading, notification,
                 fileVars, optVars, mismatchedSerials, asyncVars>>

\* cancelEdit (lines 560-564); the button shows while a Sheet is being edited.
cancelEdit ==
  /\ Mounted
  /\ editingSheetIndex # NoIndex
  /\ editingSheetIndex' = NoIndex
  /\ rawText' = <<>>
  /\ sheetName' = <<>>
  /\ lastOp' = Op("cancelEdit", 0)
  /\ UNCHANGED <<sheetDataList, columnIndex, lotOnlyMode, hasHeader, isLoading,
                 notification, fileVars, optVars, mismatchedSerials, asyncVars>>

\* handleDeleteSheet (lines 566-572); confirmed is the answer to window.confirm.
handleDeleteSheet(index, confirmed) ==
  /\ Mounted
  /\ index \in 0..(Len(sheetDataList) - 1)
  /\ IsSheet(sheetDataList[index + 1])
  /\ IF confirmed
     THEN /\ sheetDataList' = RemoveAt(sheetDataList, index)
          /\ notification' =
               Note("warning", "sheet-deleted", <<>>)
     ELSE UNCHANGED <<sheetDataList, notification>>
  /\ lastOp' = Op(IF confirmed THEN "delete" ELSE "deleteDeclined", index)
  /\ UNCHANGED <<formVars, editingSheetIndex, isLoading, fileVars, optVars,
                 mismatchedSerials, asyncVars>>


\* A workbook whose Summary table comes after the per-sheet tables.
ExportedWorkbookSummaryLast(list) ==
  LET present(s) == IsSheet(s)
      sheets == Filter(present, list)
      summaryRow(s) == [name |-> s.sheetName, count |-> Len(s.data)]
      table(s) == [name |-> SubSeq(s.sheetName, 1, IF Len(s.sheetName) < 31
                                                   THEN Len(s.sheetName) ELSE 31),
                   rows |-> s.data]
  IN Map(table, sheets) \o <<[name |-> <<"S", "u", "m", "m", "a", "r", "y">>,
                              rows |-> Map(summaryRow, sheets)]>>

\* The workbook handed to the spreadsheet writer by handleExport (lines
\* 512-521): the Summary rows, then one table per Sheet; forEach and map skip
\* holes.
ExportedWorkbook(list) ==
  LET present(s) == IsSheet(s)
      sheets == Filter(present, list)
      summaryRow(s) == [name |-> s.sheetName, count |-> Len(s.data)]
      table(s) == [name |-> SubSeq(s.sheetName, 1, IF Len(s.sheetName) < 31
                                                   THEN Len(s.sheetName) ELSE 31),
                   rows |-> s.data]
  IN <<[name |-> <<"S", "u", "m", "m", "a", "r", "y">>,
        rows |-> Map(summaryRow, sheets)]>> \o Map(table, sheets)

\* handleExport (lines 507-525)
handleExport ==
  /\ Mounted
  /\ IF Len(sheetDataList) = 0
     THEN /\ notification' = Note("error", "no-sheets-to-export", <<>>)
          /\ lastOp' = Op("exportRejected", 0)
     ELSE /\ notification' = Note("success", "exported", <<>>)
          /\ lastOp' = [Op("handleExport", 0) EXCEPT !.out = ExportedWorkbook(sheetDataList)]
  /\ UNCHANGED <<sheetDataList, formVars, editingSheetIndex, isLoading, fileVars,
                 optVars, mismatchedSerials, asyncVars>>

\* handleCopySheet (lines 527-546): up to its await in a secure context, to
\* its end otherwise.
handleCopySheet(index, copied) ==
  /\ Mounted
  /\ index \in 0..(Len(sheetDataList) - 1)
  /\ IsSheet(sheetDataList[index + 1])
  /\ IF Len(sheetDataList[index + 1].data) = 0
     THEN /\ notification' = Note("warning", "cannot-copy-empty", <<>>)
          /\ UNCHANGED awaits
     ELSE IF secureContext
     THEN /\ Len(awaits) < MaxAwaits
          /\ awaits' = Append(awaits, Suspended("copy", <<>>, <<>>, 0, <<>>))
          /\ UNCHANGED notification
     ELSE /\ notification' =
               IF copied THEN Note("success", "copied", <<>>)
               ELSE Note("error", "copy-failed", <<>>)
          /\ UNCHANGED awaits
  /\ lastOp' = Op("handleCopySheet", index)
  /\ UNCHANGED <<secureContext, sheetDataList, formVars, editingSheetIndex, isLoading, fileVars,
                 optVars, mismatchedSerials, reads, timers>>

(***************************************************************************)
(* The earlier upload page (src/pages/ExcelGeneratorWithUpload.tsx)        *)
(*                                                                         *)
(* Its component keeps the same hooks, so its actions run on the same      *)
(* variables; the mode radio buttons, the column selects and the           *)
(* validation switch are the setters modelled above.                       *)
(***************************************************************************)

\* One rowObject of the earlier parseSheet (lines 106-112): the cell as it
\* is, undefined where the row array has a hole or ends early.
EGRowObject(headers, rowArray) ==
  [h \in Range(headers) |->
     LET index == CHOOSE i \in 1..Len(headers) :
                    headers[i] = h /\ \A j \in (i + 1)..Len(headers) : headers[j] # h
     IN IF index <= Len(rowArray) THEN rowArray[index] ELSE Undef]

\* parseSheet (lines 93-125); the header cells of the model are strings.
EGparseSheet(wb, sheetNameToParse) ==
  LET k == SheetIndex(wb, sheetNameToParse)
      dataAsArray == IF k = 0 THEN <<>> ELSE wb[k].grid
      nonEmptyRows == Filter(NonEmptyRow, dataAsArray)
  IN IF k = 0
     THEN [ok |-> FALSE, note |-> Note("error", "parse-failed-not-found", <<>>)]
     ELSE IF Len(nonEmptyRows) < 2
     THEN [ok |-> FALSE, note |-> Note("error", "parse-failed-empty", <<>>)]
     ELSE LET headers == Map(JsString, nonEmptyRows[1])
              dataRows == Tail(nonEmptyRows)
              toObject(rowArray) == EGRowObject(headers, rowArray)
          IN [ok |-> TRUE,
              headers |-> headers,
              rows |-> Map(toObject, dataRows),
              note |-> Note("success", "sheet-loaded", <<>>)]

EGFileFails(file) ==
  \/ ~file.readable
  \/ Len(file.sheets) = 1 /\ ~EGparseSheet(file.sheets, file.sheets[1].name).ok

\* processUploadedFile (lines 127-164) up to reader.readAsArrayBuffer: the
\* Sheet Collection, the preview, the selections and the mode are reset.
EGprocessUploadedFile(file) ==
  /\ Mounted
  /\ Len(reads) < MaxReads
  /\ isLoading' = TRUE
  /\ notification' = NoNotification
  /\ sheetDataList' = <<>>
  /\ fileHeaders' = <<>>
  /\ parsedData' = <<>>
  /\ selected' = NoSelection
  /\ processingMode' = "invoice"
  /\ workbook' = <<>>
  /\ reads' = Append(reads, file)
  /\ lastOp' = Op("processUploadedFile", IF EGFileFails(file) THEN 0 ELSE 1)
  /\ UNCHANGED <<secureContext, formVars, editingSheetIndex, validateSerials,
                 savedMapping, mismatchedSerials, timers, awaits>>

\* reader.onload (lines 142-162) of the i-th read in flight.
EGreaderOnload(i) ==
  /\ Mounted
  /\ i \in 1..Len(reads)
  /\ LET file == reads[i]
         parsed == EGparseSheet(file.sheets, file.sheets[1].name)
     IN /\ reads' = DropAt(reads, i)
        /\ isLoading' = FALSE
        /\ IF ~file.readable
           THEN /\ notification' = Note("error", "read-failed", <<>>)
                /\ UNCHANGED <<fileVars, selected>>
           ELSE /\ workbook' = file.sheets
                /\ IF Len(file.sheets) = 1
                   THEN IF parsed.ok
                        THEN /\ fileHeaders' = parsed.headers
                             /\ parsedData' = parsed.rows
                             /\ selected' =
                                  loadMappingInto(selected, parsed.headers, savedMapping)
                             /\ notification' = parsed.note
                        ELSE /\ notification' = parsed.note
                             /\ UNCHANGED <<fileHeaders, parsedData, selected>>
                   ELSE /\ notification' =
                             Note("success", "workbook-loaded", <<>>)
                        /\ UNCHANGED <<fileHeaders, parsedData, selected>>
        /\ lastOp' = Op("readerOnload", IF EGFileFails(file) THEN 0 ELSE 1)
  /\ UNCHANGED <<secureContext, sheetDataList, formVars, editingSheetIndex,
                 processingMode, validateSerials, savedMapping, mismatchedSerials,
                 timers, awaits>>

\* getGroupKey with String(groupKey) (lines 199-205 and 210): <<key>>, or
\* <<>> for null.
EGgetGroupKey(row, mode, m) ==
  LET partKey == Get(row, m.part)
      invoiceKey == Get(row, m.invoice)
  IN IF mode = "consolidate" THEN <<JsString(partKey)>>
     ELSE IF partKey # Undef /\ invoiceKey # Undef
     THEN <<JsString(partKey) \o sDash \o JsString(invoiceKey)>>
     ELSE <<>>

\* parsedData.reduce (lines 207-214)
RECURSIVE EGGroupReduce(_, _, _, _)
EGGroupReduce(acc, rows, mode, m) ==
  IF rows = <<>> THEN acc
  ELSE LET groupKey == EGgetGroupKey(Head(rows), mode, m)
           i == IF groupKey = <<>> THEN 0 ELSE KeyIndex(acc, groupKey[1])
           next == IF groupKey = <<>> THEN acc
                   ELSE IF i = 0
                   THEN Append(acc, [key |-> groupKey[1], rows |-> <<Head(rows)>>])
                   ELSE [acc EXCEPT ![i].rows = Append(@, Head(rows))]
       IN EGGroupReduce(next, Tail(rows), mode, m)

\* rows.filter(row => row[selectedQtyCol] <= 1), then the serials rendered
\* with String and filtered with Boolean (lines 220-221).
EGGroupSerials(rows, m) ==
  LET keep(row) == JsLe(ToNumber(Get(row, m.qty)), JNum(1))
      serialOf(row) == JsString(Get(row, m.serial))
      truthy(v) == v # <<>>
  IN Filter(truthy, Map(serialOf, Filter(keep, rows)))

\* Object.entries(groupedData).forEach(...) (lines 219-239); the validation
\* loop and the pushed sheet are those of the unified page.
RECURSIVE EGForEachGroup(_, _, _)
EGForEachGroup(entries, m, validate) ==
  IF entries = <<>> THEN [sheets |-> <<>>, errors |-> <<>>]
  ELSE LET e == Head(entries)
           serials == EGGroupSerials(e.rows, m)
           rest == EGForEachGroup(Tail(entries), m, validate)
       IN [sheets |-> GroupSheet(e.key, serials, validate) \o rest.sheets,
           errors |-> ValidateGroup(e.key, serials, validate) \o rest.errors]

\* The Process File button (line 470) and processData up to setTimeout
\* (lines 183-197): the callback keeps the state of this render.
EGprocessData ==
  /\ Mounted /\ CardVisible
  /\ IF ~IsReady(processingMode, selected)
     THEN /\ notification' = Note("error", "select-required-columns", <<>>)
          /\ lastOp' = Op("EGprocessData", -1)
          /\ UNCHANGED <<isLoading, mismatchedSerials, timers>>
     ELSE /\ Len(timers) < MaxTimers
          /\ isLoading' = TRUE
          /\ notification' = NoNotification
          /\ mismatchedSerials' = <<>>
          /\ timers' = Append(timers, Closure)
          /\ lastOp' = Op("EGprocessData", 0)
  /\ UNCHANGED <<secureContext, sheetDataList, formVars, editingSheetIndex, fileVars,
                 optVars, reads, awaits>>

\* The setTimeout callback of processData (lines 197-256): the Sheet
\* Collection is replaced by the sheets of the run.
EGtimeout(i) ==
  /\ Mounted
  /\ i \in 1..Len(timers)
  /\ LET c == timers[i]
         result == EGForEachGroup(
                     ObjectEntries(EGGroupReduce(<<>>, c.parsedData, c.processingMode,
                                                 c.selected)),
                     c.selected, c.validateSerials)
     IN /\ sheetDataList' = result.sheets
        /\ mismatchedSerials' =
             IF Len(result.errors) > 0 THEN result.errors ELSE mismatchedSerials
        /\ notification' = FinishNote(result.errors, Len(result.sheets))
  /\ isLoading' = FALSE
  /\ timers' = DropAt(timers, i)
  /\ lastOp' = [Op("EGtimeout", 0) EXCEPT !.out = timers[i]]
  /\ UNCHANGED <<secureContext, formVars, editingSheetIndex, fileVars, optVars, reads,
                 awaits>>


\* Raw Adds of the earlier page are explored while the collection holds
\* fewer than MaxEGSheets slots.
MaxEGSheets == 2

\* handleAddOrUpdateSheet of the earlier page (lines 286-312): no clipboard
\* copy; the editing index is reset in the update branch only.
EGhandleAddOrUpdateSheet ==
  /\ Mounted
  /\ LET entries == EntriesOf(rawText, hasHeader, columnIndex)
         finalSheetName == finalSheetNameOf(sheetName, sheetDataList)
         newSheet == [sheetName |-> finalSheetName,
                      data |-> buildSheetDataFromText(entries, lotOnlyMode)]
     IN IF Len(entries) = 0
        THEN /\ notification' = Note("error", "no-valid-entries", <<>>)
             /\ lastOp' = Op("rawRejected", 0)
             /\ UNCHANGED <<sheetDataList, rawText, sheetName, editingSheetIndex>>
        ELSE /\ IF editingSheetIndex # NoIndex
                THEN /\ sheetDataList' =
                          AssignAt(Spread(sheetDataList), editingSheetIndex, newSheet)
                     /\ lastOp' = Op("rawUpdate", editingSheetIndex)
                ELSE /\ Len(sheetDataList) < MaxEGSheets
                     /\ sheetDataList' = Append(Spread(sheetDataList), newSheet)
                     /\ lastOp' = Op("rawAdd", Len(sheetDataList))
             /\ editingSheetIndex' = NoIndex
             /\ notification' = Note("success", "added-or-updated", <<>>)
             /\ rawText' = <<>>
             /\ sheetName' = <<>>
  /\ UNCHANGED <<columnIndex, lotOnlyMode, hasHeader, isLoading, fileVars, optVars,
                 mismatchedSerials, asyncVars>>


(***************************************************************************)
(* The serial extractor page (src/pages/SerialExtractor.tsx)               *)
(*                                                                         *)
(* It keeps the manual builder hooks only and reports with alert().        *)
(***************************************************************************)

\* handleAddOrUpdateSheet (lines 47-83)
SEhandleAddOrUpdateSheet ==
  /\ Mounted
  /\ LET entries == EntriesOf(rawText, hasHeader, columnIndex)
         finalSheetName == finalSheetNameOf(sheetName, sheetDataList)
         newSheet == [sheetName |-> finalSheetName,
                      data |-> buildSheetDataFromText(entries, lotOnlyMode)]
     IN IF Len(entries) = 0
        THEN /\ lastOp' = Op("rawRejected", 0)
             /\ UNCHANGED <<sheetDataList, rawText, sheetName, editingSheetIndex>>
        ELSE /\ IF editingSheetIndex # NoIndex
                THEN /\ sheetDataList' =
                          AssignAt(Spread(sheetDataList), editingSheetIndex, newSheet)
                     /\ lastOp' = Op("rawUpdate", editingSheetIndex)
                ELSE /\ Len(sheetDataList) < MaxSheets
                     /\ sheetDataList' = Append(Spread(sheetDataList), newSheet)
                     /\ lastOp' = Op("rawAdd", Len(sheetDataList))
             /\ editingSheetIndex' = NoIndex
             /\ rawText' = <<>>
             /\ sheetName' = <<>>
  /\ UNCHANGED <<columnIndex, lotOnlyMode, hasHeader, isLoading, notification, fileVars,
                 optVars, mismatchedSerials, asyncVars>>

\* The workbook handed to the writer by handleExport (lines 91-95): one
\* table per Sheet under the Sheet's name.
SEExportedWorkbook(list) ==
  LET present(s) == IsSheet(s)
      table(s) == [name |-> s.sheetName, rows |-> s.data]
  IN Map(table, Filter(present, list))

\* handleExport (lines 85-97)
SEhandleExport ==
  /\ Mounted
  /\ lastOp' = IF Len(sheetDataList) = 0 THEN Op("exportRejected", 0)
               ELSE [Op("SEhandleExport", 0) EXCEPT !.out = SEExportedWorkbook(sheetDataList)]
  /\ UNCHANGED <<sheetDataList, formVars, editingSheetIndex, isLoading, notification,
                 fileVars, optVars, mismatchedSerials, asyncVars>>

(***************************************************************************)
(* The validating manual builder (src/unnamed/part_004)                    *)
(***************************************************************************)

\* A validation that never remembers a value it has seen.
RECURSIVE VBValidateForgetful(_, _, _)
VBValidateForgetful(entries, i, seenSerials) ==
  IF i > Len(entries) THEN <<>>
  ELSE LET entry == entries[i]
           dup == IF entry \in seenSerials
                  THEN <<[serial |-> entry, reason |-> "Duplicate"]>> ELSE <<>>
           fmt == IF Len(entry) # Len(entries[1])
                  THEN <<[serial |-> entry, reason |-> "Length Mismatch"]>>
                  ELSE IF getSequence(entry) # getSequence(entries[1])
                  THEN <<[serial |-> entry, reason |-> "Sequence Mismatch"]>>
                  ELSE <<>>
       IN dup \o fmt \o VBValidateForgetful(entries, i + 1, seenSerials)

\* The loop of lines 270-284 from entry i on: a value already in seenSerials
\* is flagged as a duplicate, any other is added to the set; every entry,
\* the first included, is then compared with the first.
RECURSIVE VBValidate(_, _, _)
VBValidate(entries, i, seenSerials) ==
  IF i > Len(entries) THEN <<>>
  ELSE LET entry == entries[i]
           dup == IF entry \in seenSerials
                  THEN <<[serial |-> entry, reason |-> "Duplicate"]>> ELSE <<>>
           fmt == IF Len(entry) # Len(entries[1])
                  THEN <<[serial |-> entry, reason |-> "Length Mismatch"]>>
                  ELSE IF getSequence(entry) # getSequence(entries[1])
                  THEN <<[serial |-> entry, reason |-> "Sequence Mismatch"]>>
                  ELSE <<>>
       IN dup \o fmt \o VBValidate(entries, i + 1, seenSerials \cup {entry})

\* mismatchedSerials of handleAddOrUpdateSheet (lines 260-285).
VBmismatchedSerials(entries) ==
  IF Len(entries) > 1 THEN VBValidate(entries, 1, {}) ELSE <<>>

\* handleAddOrUpdateSheet (lines 246-307): synchronous, no clipboard; the
\* mismatches go into the notification.
VBhandleAddOrUpdateSheet ==
  /\ Mounted
  /\ LET entries == EntriesOf(rawText, hasHeader, columnIndex)
         mismatches == VBmismatchedSerials(entries)
         finalSheetName == finalSheetNameOf(sheetName, sheetDataList)
         newSheet == [sheetName |-> finalSheetName,
                      data |-> buildSheetDataFromText(entries, lotOnlyMode)]
     IN IF Len(entries) = 0
        THEN /\ notification' = Note("error", "no-valid-entries", <<>>)
             /\ lastOp' = Op("VBrejected", 0)
             /\ UNCHANGED <<sheetDataList, rawText, sheetName, editingSheetIndex>>
        ELSE /\ IF editingSheetIndex # NoIndex
                THEN /\ sheetDataList' =
                          AssignAt(Spread(sheetDataList), editingSheetIndex, newSheet)
                     /\ lastOp' = [Op("VBupdate", editingSheetIndex)
                                     EXCEPT !.out = mismatches]
                ELSE /\ Len(sheetDataList) < MaxSheets
                     /\ sheetDataList' = Append(Spread(sheetDataList), newSheet)
                     /\ lastOp' = [Op("VBadd", Len(sheetDataList))
                                     EXCEPT !.out = mismatches]
             /\ editingSheetIndex' = NoIndex
             /\ notification' =
                  IF Len(mismatches) > 0
                  THEN Note("warning", "created-with-warnings", mismatches)
                  ELSE Note("success", "added-or-updated", <<>>)
             /\ rawText' = <<>>
             /\ sheetName' = <<>>
  /\ UNCHANGED <<columnIndex, lotOnlyMode, hasHeader, isLoading, fileVars, optVars,
                 mismatchedSerials, asyncVars>>

(***************************************************************************)
(* Rows and files the specifications draw from                             *)
(***************************************************************************)

sA1 == <<"A", "1">>
sOne == <<"1">>

\* Rows that differ from the row P / I / "1" / A1 in the cells the grouping,
\* the quantity guard and the validator look at.
Rows ==
  { GridRow(Str(<<"P">>), Str(<<"I">>), Str(sOne), Str(sA1)),
    GridRow(Str(<<"P">>), Str(<<"I">>), Str(sOne), Str(<<"B", "2">>)),
    GridRow(Str(<<"P">>), Str(<<"I">>), Num(1), Str(<<"C", "1", "2">>)),
    GridRow(Str(<<"P">>), Str(<<"I">>), Str(<<" ", "1", " ">>), Str(<<"7", "A">>)),
    GridRow(Str(<<"P">>), Str(<<"I">>), Str(<<"2">>), Str(<<"A", "9">>)),
    GridRow(Str(<<"P", " ", "(", "1", ")">>), Str(<<"I">>), Str(sOne), Str(sA1)),
    GridRow(Str(<<"P">>), Str(<<"I">>), Str(<<>>), Str(<<"A", "8">>)),
    GridRow(Str(<<"P">>), Str(<<"I">>), Str(<<"x">>), Str(<<"A", "7">>)),
    GridRow(Str(<<"7">>), Str(<<"I">>), Str(sOne), Str(sA1)),
    GridRow(Str(<<"P">>), Str(<<"J">>), Str(<<"2">>), Str(sA1)),
    GridRow(Str(<<" ">>), Str(<<"I">>), Str(sOne), Str(sA1)),
    GridRow(Str(<<"P">>), Str(<<>>), Str(sOne), Str(sA1)),
    GridRow(Str(<<"P">>), Str(<<"I">>), Str(sOne), Str(<<" ">>)) }

\* Data rows per uploaded sheet.
MaxRows == 3

RECURSIVE SeqsUpTo(_, _)
SeqsUpTo(S, n) ==
  IF n = 0 THEN {<<>>}
  ELSE LET shorter == SeqsUpTo(S, n - 1)
       IN shorter \cup {Append(s, x) : s \in {q \in shorter : Len(q) = n - 1}, x \in S}

OneSheetFile(rows) ==
  [readable |-> TRUE, sheets |-> <<[name |-> <<"G">>, grid |-> <<HeaderRow>> \o rows]>>]

\* Rows of sheets read by the earlier page, where an empty cell stays
\* undefined.
EGRows ==
  { GridRow(Str(<<"P">>), Str(<<"I">>), Str(sOne), Str(sA1)),
    GridRow(Str(<<"P">>), Str(<<"I">>), Str(<<" ">>), Str(<<"A", "8">>)),
    GridRow(Str(<<"P">>), Str(<<"I">>), Num(1), Undef),
    GridRow(Undef, Str(<<"I">>), Str(sOne), Str(<<"B", "2">>)) }

MaxEGRows == 2

EGFiles ==
  {FileBad, FileHeaderOnly}
    \cup {OneSheetFile(rows) : rows \in SeqsUpTo(EGRows, MaxEGRows) \ {<<>>}}


\* Forms that yield no entry: whitespace-only lines, a header line alone with
\* the header flag on, lines with no field at the chosen column, and lines
\* whose field at the chosen column is blank.
FormBlank == Form(<<" ", "\n", "\t">>, <<"K">>, 0, FALSE, FALSE)
FormHeaderOnly == Form(<<"\n", "H", ",", "x", "\n">>, <<"K">>, 0, FALSE, TRUE)
FormNoField == Form(<<"a", ",", "b", "\n", "c">>, <<"K">>, 2, FALSE, FALSE)
FormBlankField == Form(<<"a", ",", " ", "\n", "c", "\t">>, <<>>, 1, TRUE, FALSE)

RejectForms == {FormBlank, FormHeaderOnly, FormNoField, FormBlankField}

\* A second file whose invoice and serial columns carry other names, and the
\* mapping a user selects for it.
FileOther ==
  [readable |-> TRUE,
   sheets |-> <<[name |-> <<"O">>,
                 grid |-> <<<<Str(hP), Str(<<"J">>), Str(hQ), Str(<<"X">>)>>,
                            GridRow(Str(sP1), Str(sI1), Str(sOne), Str(sA1))>>]>>]
OtherMapping == [part |-> hP, invoice |-> <<"J">>, qty |-> hQ, serial |-> <<"X">>]

\* A sheet with two part/invoice groups: P - I keeps the row A1, P - J has a
\* quantity-2 row and a non-numeric one, so none of its rows is retained.
RowsWithEmptyGroup ==
  <<GridRow(Str(<<"P">>), Str(<<"J">>), Str(<<"2">>), Str(sA1)),
    GridRow(Str(<<"P">>), Str(<<"I">>), Str(sOne), Str(sA1)),
    GridRow(Str(<<"P">>), Str(<<"J">>), Str(<<"x">>), Str(<<"A", "7">>))>>

\* Forms for the export: names of 31 and 32 characters, three and five
\* values.
LongName(n) == [i \in 1..n |-> IF i = n THEN "z" ELSE "n"]
FormThree ==
  Form(<<"A", "1", "\n", "A", "2", "\n", "A", "3">>, LongName(31), 0, FALSE, FALSE)
FormFive ==
  Form(<<"h", "\n", "1", "\n", "2", "\n", "3", "\n", "4", "\n", "5">>, LongName(32),
       0, FALSE, TRUE)

ExportForms == {FormSerials, FormThree, FormFive}

\* Header cells: a name, the name with blanks around it, the name a repeat
\* of it is renamed to, a blank cell and an empty cell.
HeaderCells ==
  {Str(<<"A">>), Str(<<" ", "A", " ">>), Str(<<"A", "_", "1">>), Str(<<" ">>), Undef}

\* Columns per uploaded sheet.
MaxHeaders == 3

\* A sheet with the header row hs and one data row 1, 2, 3, ...
HeaderFile(hs) ==
  [readable |-> TRUE,
   sheets |-> <<[name |-> <<"H">>,
                 grid |-> <<hs, [i \in 1..Len(hs) |-> Str(NatToStr(i))]>>]>>]

HeaderFiles == {HeaderFile(hs) : hs \in SeqsUpTo(HeaderCells, MaxHeaders) \ {<<>>}}

\* Pasted lines: empty, blank, one field, comma-separated, tab-separated, a
\* tab-separated line with a comma inside a field, an empty first field, a
\* blank last field.
ManualLines ==
  {<<>>, <<" ">>, <<"a">>, <<"a", ",", "b">>, <<"a", "\t", "b">>,
   <<"a", "\t", "b", ",", "c">>, <<",", "b">>, <<"a", ",", " ">>}

\* Lines per pasted text.
MaxLines == 3

\* The column index input is a number input read with Number(): an integer,
\* negative when the user types a minus sign.
MinColumnIndex == -1
MaxColumnIndex == 2

ManualTexts ==
  {Join(ls, <<"\n">>) : ls \in SeqsUpTo(ManualLines, MaxLines) \ {<<>>}}

ManualForms ==
  {Form(text, <<"K">>, index, FALSE, header) :
     text \in ManualTexts, index \in MinColumnIndex..MaxColumnIndex, header \in BOOLEAN}

(***************************************************************************)
(* Specifications                                                          *)
(***************************************************************************)

\* The unified page, every handler, in either clipboard context.
Init == \E secure \in BOOLEAN : InitWith(secure)

Next ==
  \/ \E f \in Files : processUploadedFile(f)
  \/ \E i \in 1..MaxReads : readerOnload(i)
  \/ \E k \in 1..2 : selectSheet(k)
  \/ \E mode \in {"invoice", "consolidate"} : setProcessingMode(mode)
  \/ selectColumns(StdMapping)
  \/ \E flag \in BOOLEAN : setValidateSerials(flag)
  \/ saveMapping
  \/ loadMapping
  \/ processData
  \/ \E i \in 1..MaxTimers : timerFires(i)
  \/ \E i \in 1..MaxAwaits, copied \in BOOLEAN : resume(i, copied)
  \/ \E f \in Forms : typeForm(f)
  \/ \E copied \in BOOLEAN : handleAddOrUpdateSheet(copied)
  \/ handleProcessManual
  \/ \E index \in 0..(MaxSheets - 1) : handleEditSheet(index)
  \/ cancelEdit
  \/ \E index \in 0..(MaxSheets - 1), confirmed \in BOOLEAN :
       handleDeleteSheet(index, confirmed)
  \/ handleExport
  \/ \E index \in 0..(MaxSheets - 1), copied \in BOOLEAN :
       handleCopySheet(index, copied)

Spec == Init /\ [][Next]_vars

\* The page where the clipboard falls back to execCommand: an awaiting
\* handler continues before any other event.
InitFallback == InitWith(FALSE)

\* The manual builder and the Sheet Collection buttons.
NextBuilder ==
  \/ \E f \in Forms : typeForm(f)
  \/ \E copied \in BOOLEAN : handleAddOrUpdateSheet(copied)
  \/ \E index \in 0..(MaxSheets - 1) : handleEditSheet(index)
  \/ cancelEdit
  \/ \E index \in 0..(MaxSheets - 1), confirmed \in BOOLEAN :
       handleDeleteSheet(index, confirmed)
  \/ handleExport
  \/ \E index \in 0..(MaxSheets - 1), copied \in BOOLEAN :
       handleCopySheet(index, copied)

SpecBuilder == InitFallback /\ [][NextBuilder]_vars

\* Upload, mapping, Process File and Process Manual.
NextPipeline ==
  \/ \E f \in Files : processUploadedFile(f)
  \/ \E i \in 1..MaxReads : readerOnload(i)
  \/ \E mode \in {"invoice", "consolidate"} : setProcessingMode(mode)
  \/ selectColumns(StdMapping)
  \/ \E flag \in BOOLEAN : setValidateSerials(flag)
  \/ processData
  \/ \E i \in 1..MaxTimers : timerFires(i)
  \/ \E f \in Forms : typeForm(f)
  \/ handleProcessManual

SpecPipeline == InitFallback /\ [][NextPipeline]_vars

\* A Sheet added by hand under the name P.
PriorSheet == [sheetName |-> <<"P">>, data |-> buildSheetDataFromText(<<sA1>>, FALSE)]

\* Process File over every sheet of at most MaxRows rows of Rows: the page
\* after such a sheet was uploaded and its columns were mapped, in either
\* mode, with the validation switch on or off, with or without a Sheet named
\* P already in the collection.
InitPD ==
  \E rows \in SeqsUpTo(Rows, MaxRows) \ {<<>>},
     mode \in {"invoice", "consolidate"}, flag \in BOOLEAN,
     prior \in {<<>>, <<PriorSheet>>} :
    /\ secureContext = FALSE
    /\ sheetDataList = prior
    /\ rawText = <<>>
    /\ columnIndex = 0
    /\ sheetName = <<>>
    /\ lotOnlyMode = FALSE
    /\ hasHeader = FALSE
    /\ editingSheetIndex = NoIndex
    /\ isLoading = FALSE
    /\ notification = Note("success", "sheet-loaded", <<>>)
    /\ workbook = OneSheetFile(rows).sheets
    /\ fileHeaders = uniqueHeadersOf(HeaderRow)
    /\ parsedData = [i \in 1..Len(rows) |-> RowObject(uniqueHeadersOf(HeaderRow), rows[i])]
    /\ selected = StdMapping
    /\ processingMode = mode
    /\ validateSerials = flag
    /\ mismatchedSerials = <<>>
    /\ savedMapping = NoSaved
    /\ reads = <<>>
    /\ timers = <<>>
    /\ awaits = <<>>
    /\ lastOp = Op("selectColumns", 0)

NextPD == processData

SpecPD == InitPD /\ [][NextPD]_vars

\* The earlier upload page.
NextEG ==
  \/ \E f \in EGFiles : EGprocessUploadedFile(f)
  \/ \E i \in 1..MaxReads : EGreaderOnload(i)
  \/ \E mode \in {"invoice", "consolidate"} : setProcessingMode(mode)
  \/ selectColumns(StdMapping)
  \/ EGprocessData
  \/ \E i \in 1..MaxTimers : EGtimeout(i)

SpecEG == InitFallback /\ [][NextEG]_vars

\* The earlier upload page with its manual builder.
NextEGManual ==
  \/ EGprocessUploadedFile(FileGood)
  \/ \E i \in 1..MaxReads : EGreaderOnload(i)
  \/ \E mode \in {"invoice", "consolidate"} : setProcessingMode(mode)
  \/ selectColumns(StdMapping)
  \/ EGprocessData
  \/ \E i \in 1..MaxTimers : EGtimeout(i)
  \/ \E f \in RejectForms \cup {FormSerials} : typeForm(f)
  \/ EGhandleAddOrUpdateSheet
  \/ \E index \in 0..(MaxEGSheets - 1) : handleEditSheet(index)

SpecEGManual == InitFallback /\ [][NextEGManual]_vars

\* One file uploaded after another on the unified page: the selections
\* outlive the upload.
NextRemap ==
  \/ \E f \in {FileGood, FileOther} : processUploadedFile(f)
  \/ \E i \in 1..MaxReads : readerOnload(i)
  \/ \E mode \in {"invoice", "consolidate"} : setProcessingMode(mode)
  \/ \E m \in {StdMapping, OtherMapping} : selectColumns(m)
  \/ saveMapping
  \/ loadMapping
  \/ processData

SpecRemap == InitFallback /\ [][NextRemap]_vars

\* The unified page after the sheet RowsWithEmptyGroup was uploaded and its
\* columns were mapped: Process File and the manual builder fill the
\* collection.
InitSheets ==
  \E mode \in {"invoice", "consolidate"} :
    /\ secureContext = FALSE
    /\ sheetDataList = <<>>
    /\ rawText = <<>>
    /\ columnIndex = 0
    /\ sheetName = <<>>
    /\ lotOnlyMode = FALSE
    /\ hasHeader = FALSE
    /\ editingSheetIndex = NoIndex
    /\ isLoading = FALSE
    /\ notification = Note("success", "sheet-loaded", <<>>)
    /\ workbook = OneSheetFile(RowsWithEmptyGroup).sheets
    /\ fileHeaders = uniqueHeadersOf(HeaderRow)
    /\ parsedData = [i \in 1..Len(RowsWithEmptyGroup) |->
                       RowObject(uniqueHeadersOf(HeaderRow), RowsWithEmptyGroup[i])]
    /\ selected = StdMapping
    /\ processingMode = mode
    /\ validateSerials = TRUE
    /\ mismatchedSerials = <<>>
    /\ savedMapping = NoSaved
    /\ reads = <<>>
    /\ timers = <<>>
    /\ awaits = <<>>
    /\ lastOp = Op("selectColumns", 0)

NextSheets ==
  \/ processData
  \/ \E f \in {FormHeaderOnly, FormBlankField, FormSerials} : typeForm(f)
  \/ handleAddOrUpdateSheet(TRUE)
  \/ \E index \in 0..(MaxSheets - 1) : handleEditSheet(index)
  \/ \E index \in 0..(MaxSheets - 1) : handleDeleteSheet(index, TRUE)

SpecSheets == InitSheets /\ [][NextSheets]_vars

\* The manual builder and the Export button of the unified page.
NextExport ==
  \/ \E f \in ExportForms : typeForm(f)
  \/ \E copied \in BOOLEAN : handleAddOrUpdateSheet(copied)
  \/ \E index \in 0..(MaxSheets - 1) : handleDeleteSheet(index, TRUE)
  \/ handleExport

SpecExport == InitFallback /\ [][NextExport]_vars

\* The serial extractor page: its column index starts at 1.
InitSE ==
  /\ secureContext = FALSE
  /\ sheetDataList = <<>>
  /\ rawText = <<>>
  /\ columnIndex = 1
  /\ sheetName = <<>>
  /\ lotOnlyMode = FALSE
  /\ hasHeader = FALSE
  /\ editingSheetIndex = NoIndex
  /\ isLoading = FALSE
  /\ notification = NoNotification
  /\ workbook = <<>>
  /\ fileHeaders = <<>>
  /\ parsedData = <<>>
  /\ selected = NoSelection
  /\ processingMode = "invoice"
  /\ validateSerials = TRUE
  /\ mismatchedSerials = <<>>
  /\ savedMapping = NoSaved
  /\ reads = <<>>
  /\ timers = <<>>
  /\ awaits = <<>>
  /\ lastOp = Op("init", 0)

NextSE ==
  \/ \E f \in ExportForms : typeForm(f)
  \/ SEhandleAddOrUpdateSheet
  \/ \E index \in 0..(MaxSheets - 1) : handleDeleteSheet(index, TRUE)
  \/ SEhandleExport

SpecSE == InitSE /\ [][NextSE]_vars

\* Uploads of sheets with repeated, blank and empty header cells.
NextHeaders ==
  \/ \E f \in HeaderFiles : processUploadedFile(f)
  \/ \E i \in 1..MaxReads : readerOnload(i)

SpecHeaders == InitFallback /\ [][NextHeaders]_vars

\* The manual builder of the unified page with a text, a column index and a
\* header flag typed in, in either clipboard context; the Sheet is added,
\* edited, re-added and deleted.
InitManual ==
  \E f \in ManualForms, secure \in BOOLEAN :
    /\ secureContext = secure
    /\ sheetDataList = <<>>
    /\ rawText = f.rawText
    /\ columnIndex = f.columnIndex
    /\ sheetName = f.sheetName
    /\ lotOnlyMode = f.lotOnlyMode
    /\ hasHeader = f.hasHeader
    /\ editingSheetIndex = NoIndex
    /\ isLoading = FALSE
    /\ notification = NoNotification
    /\ workbook = <<>>
    /\ fileHeaders = <<>>
    /\ parsedData = <<>>
    /\ selected = NoSelection
    /\ processingMode = "invoice"
    /\ validateSerials = TRUE
    /\ mismatchedSerials = <<>>
    /\ savedMapping = NoSaved
    /\ reads = <<>>
    /\ timers = <<>>
    /\ awaits = <<>>
    /\ lastOp = Op("typeForm", 0)

NextManual ==
  \/ \E copied \in BOOLEAN : handleAddOrUpdateSheet(copied)
  \/ \E i \in 1..MaxAwaits, copied \in BOOLEAN : resume(i, copied)
  \/ \E index \in 0..(MaxSheets - 1) : handleEditSheet(index)
  \/ \E index \in 0..(MaxSheets - 1) : handleDeleteSheet(index, TRUE)

SpecManual == InitManual /\ [][NextManual]_vars

\* The same builder with the Column Index input and the Has Header checkbox
\* changed between the operations.
NextRoundTrip ==
  \/ NextManual
  \/ \E n \in MinColumnIndex..MaxColumnIndex : setColumnIndex(n)
  \/ toggleHasHeader

SpecRoundTrip == InitManual /\ [][NextRoundTrip]_vars

\* The validating manual builder with a text of at most MaxLines values typed
\* in, some of them repeated, in serial or lot mode.
VBLines ==
  {<<"A", "1">>, <<" ", "A", "1", " ">>, <<"B", "2">>, <<"A", "1", "2">>, <<"A", "B">>,
   <<" ">>}
VBForms ==
  {Form(Join(ls, <<"\n">>), <<"K">>, 0, lot, FALSE) :
     ls \in SeqsUpTo(VBLines, MaxLines) \ {<<>>}, lot \in BOOLEAN}

InitVB ==
  \E f \in VBForms :
    /\ secureContext = FALSE
    /\ sheetDataList = <<>>
    /\ rawText = f.rawText
    /\ columnIndex = f.columnIndex
    /\ sheetName = f.sheetName
    /\ lotOnlyMode = f.lotOnlyMode
    /\ hasHeader = f.hasHeader
    /\ editingSheetIndex = NoIndex
    /\ isLoading = FALSE
    /\ notification = NoNotification
    /\ workbook = <<>>
    /\ fileHeaders = <<>>
    /\ parsedData = <<>>
    /\ selected = NoSelection
    /\ processingMode = "invoice"
    /\ validateSerials = TRUE
    /\ mismatchedSerials = <<>>
    /\ savedMapping = NoSaved
    /\ reads = <<>>
    /\ timers = <<>>
    /\ awaits = <<>>
    /\ lastOp = Op("typeForm", 0)

NextVB ==
  \/ VBhandleAddOrUpdateSheet
  \/ \E index \in 0..(MaxSheets - 1) : handleEditSheet(index)
  \/ \E index \in 0..(MaxSheets - 1) : handleDeleteSheet(index, TRUE)

SpecVB == InitVB /\ [][NextVB]_vars

\* The unified page after RowsWithEmptyGroup was uploaded and mapped, in
\* either clipboard context: raw Add/Update and Process File, each with a
\* clipboard write that succeeds or fails.
InitClipboard ==
  \E mode \in {"invoice", "consolidate"}, secure \in BOOLEAN :
    /\ secureContext = secure
    /\ sheetDataList = <<>>
    /\ rawText = <<>>
    /\ columnIndex = 0
    /\ sheetName = <<>>
    /\ lotOnlyMode = FALSE
    /\ hasHeader = FALSE
    /\ editingSheetIndex = NoIndex
    /\ isLoading = FALSE
    /\ notification = Note("success", "sheet-loaded", <<>>)
    /\ workbook = OneSheetFile(RowsWithEmptyGroup).sheets
    /\ fileHeaders = uniqueHeadersOf(HeaderRow)
    /\ parsedData = [i \in 1..Len(RowsWithEmptyGroup) |->
                       RowObject(uniqueHeadersOf(HeaderRow), RowsWithEmptyGroup[i])]
    /\ selected = StdMapping
    /\ processingMode = mode
    /\ validateSerials = TRUE
    /\ mismatchedSerials = <<>>
    /\ savedMapping = NoSaved
    /\ reads = <<>>
    /\ timers = <<>>
    /\ awaits = <<>>
    /\ lastOp = Op("selectColumns", 0)

NextClipboard ==
  \/ processData
  \/ typeForm(FormSerials)
  \/ \E copied \in BOOLEAN : handleAddOrUpdateSheet(copied)
  \/ \E index \in 0..(MaxSheets - 1) : handleEditSheet(index)
  \/ \E i \in 1..MaxAwaits, copied \in BOOLEAN : resume(i, copied)

SpecClipboard == InitClipboard /\ [][NextClipboard]_vars

\* The manual builder when the user types only while no Sheet is being
\* edited: between Edit and Update the form holds what Edit loaded.
NextEdit ==
  \/ \E f \in Forms : editingSheetIndex = NoIndex /\ typeForm(f)
  \/ \E copied \in BOOLEAN : handleAddOrUpdateSheet(copied)
  \/ \E index \in 0..(MaxSheets - 1) : handleEditSheet(index)
  \/ \E index \in 0..(MaxSheets - 1) : handleDeleteSheet(index, TRUE)

SpecEdit == InitFallback /\ [][NextEdit]_vars

\* Uploads that overlap: a second file is chosen while the first is being
\* read; a Sheet is added by hand to have a collection to watch.
NextUploads ==
  \/ \E f \in {FileBad, FileGood, FileOther} : processUploadedFile(f)
  \/ \E f \in {FileBad, FileGood, FileOther} : processUploadedFileDuringRead(f)
  \/ \E i \in 1..MaxOverlappingReads : readerOnload(i)
  \/ typeForm(FormSerials)
  \/ handleAddOrUpdateSheet(TRUE)

SpecUploads == InitFallback /\ [][NextUploads]_vars

\* Upload, Process File and Process Manual with every pending file read,
\* timer and clipboard write completing.  A run is started only while the
\* collection has room for its Sheets and for those of the runs already
\* scheduled, so that the bound MaxSheets never holds a callback back.
PendingSheets ==
  IF timers = <<>> THEN 0 ELSE Len(RunResult(timers[1]).sheets)

HasRoom ==
  Len(sheetDataList) + Len(RunResult(Closure).sheets) + PendingSheets <= MaxSheets

NextLoading ==
  \/ \E f \in {FileBad, FileGood} : processUploadedFile(f)
  \/ \E i \in 1..MaxReads : readerOnload(i)
  \/ selectColumns(StdMapping)
  \/ HasRoom /\ processData
  \/ typeForm(FormSerials)
  \/ HasRoom /\ handleProcessManual
  \/ \E i \in 1..MaxTimers : timerFires(i)
  \/ \E i \in 1..MaxAwaits, copied \in BOOLEAN : resume(i, copied)
  \/ \E index \in 0..(MaxSheets - 1) : handleDeleteSheet(index, TRUE)

\* The step in which the callback of the i-th read in flight, or of the i-th
\* pending timer, runs.
readCallbackRuns(i) ==
  /\ i \in 1..Len(reads) /\ reads' = DropAt(reads, i)
  /\ lastOp'.name = "readerOnload"
timerCallbackRuns(i) ==
  /\ i \in 1..Len(timers) /\ timers' = DropAt(timers, i)
  /\ lastOp'.name = "timerFires"

\* A read in flight ends in its onload, a pending timer fires and a clipboard
\* write settles.  For the read and the timer, weak fairness is written out
\* as "infinitely often not pending, or infinitely often run", with pending
\* in the place of ENABLED: the browser runs the callback of every pending
\* read and timer, also while the bound MaxAwaits holds the model's step
\* back.
FairLoading ==
  /\ \A i \in 1..MaxReads :
       []<>(i \notin 1..Len(reads)) \/ []<><<readCallbackRuns(i)>>_vars
  /\ \A i \in 1..MaxTimers :
       []<>(i \notin 1..Len(timers)) \/ []<><<timerCallbackRuns(i)>>_vars
  /\ \A i \in 1..MaxAwaits : WF_vars(\E copied \in BOOLEAN : resume(i, copied))

SpecLoading == Init /\ [][NextLoading]_vars /\ FairLoading

(***************************************************************************)
(* What a Process File run read and appended                               *)
(***************************************************************************)

\* The last step ended a Process File run that got past its early returns:
\* processData on the unified page, the timer callback on the earlier page.
ProcessFileRan == lastOp.name \in {"processData", "EGtimeout"} /\ lastOp.arg >= 0

\* The Sheets the run appended and the names in use before it.
Appended == SubSeq(sheetDataList, lastOp.arg + 1, Len(sheetDataList))
PriorNames ==
  {sheetDataList[i].sheetName : i \in {j \in 1..lastOp.arg : IsSheet(sheetDataList[j])}}
InUseBefore(j) == PriorNames \cup {Appended[i].sheetName : i \in 1..(j - 1)}

\* The rows, the mapping and the mode the run read.
RunRows == lastOp.out.parsedData
PartCell(row) == Get(row, lastOp.out.selected.part)
InvoiceCell(row) == Get(row, lastOp.out.selected.invoice)
QtyCell(row) == Get(row, lastOp.out.selected.qty)
SerialCell(row) == Get(row, lastOp.out.selected.serial)
InvoiceMode == lastOp.out.processingMode = "invoice"

\* A cell that is there and is not blank after trimming.
Present(c) == c # Undef /\ Trim(JsString(c)) # <<>>

\* The row passes the grouping skip rule.
InScope(row) ==
  /\ Present(PartCell(row))
  /\ Present(SerialCell(row))
  /\ (InvoiceMode => Present(InvoiceCell(row)))

KeyOfRow(row) ==
  IF InvoiceMode
  THEN JsString(PartCell(row)) \o <<" ", "-", " ">> \o JsString(InvoiceCell(row))
  ELSE JsString(PartCell(row))

\* The quantity cell, trimmed and parsed as a number, is a number <= 1.
QtyAtMostOne(row) ==
  LET q == QtyCell(row) IN
  \/ q.t = "num" /\ q.n <= 1
  \/ /\ q.t = "str"
     /\ Trim(q.s) # <<>>
     /\ ~StrToNumber(Trim(q.s)).nan
     /\ StrToNumber(Trim(q.s)).v <= 1

\* The identity values a group key should yield, in input order.
ExpectedValues(k) ==
  LET keep(row) == InScope(row) /\ KeyOfRow(row) = k /\ QtyAtMostOne(row)
      kept == SelectSeq(RunRows, keep)
  IN [i \in 1..Len(kept) |-> JsString(SerialCell(kept[i]))]

ExpectedKeys == {KeyOfRow(RunRows[i]) : i \in {j \in 1..Len(RunRows) : InScope(RunRows[j])}}
SheetKeys == {k \in ExpectedKeys : ExpectedValues(k) # <<>>}

SerialsOf(sheet) == [i \in 1..Len(sheet.data) |-> sheet.data[i].serialNo]

Suffixed(base, n) == base \o <<" ", "(">> \o NatToStr(n) \o <<")">>
HasBase(name, base) == name = base \/ \E n \in 1..MaxSheets : name = Suffixed(base, n)

\* The name under which base is stored when the names of used are taken.
StoredName(base, used) ==
  IF base \notin used THEN base
  ELSE Suffixed(base,
         CHOOSE n \in 1..(Cardinality(used) + 1) :
           /\ Suffixed(base, n) \notin used
           /\ \A m \in 1..(n - 1) : Suffixed(base, m) \in used)

sPI == <<"P", " ", "-", " ", "I">>


(***************************************************************************)
(* Claims                                                                  *)
(***************************************************************************)

\* C1: in every reachable state no two Sheets of the collection have the
\* same name.
C1_NamesUnique ==
  \A i, j \in 1..Len(sheetDataList) :
    (i < j /\ IsSheet(sheetDataList[i]) /\ IsSheet(sheetDataList[j]))
      => sheetDataList[i].sheetName # sheetDataList[j].sheetName

\* C2: the steps of an upload whose file cannot be read, or whose sheet has
\* fewer than two non-empty rows, leave the Sheet Collection as it was, and
\* the failing read ends in an error message.
C2_FailedUploadKeepsCollection ==
  [][(lastOp'.name \in {"processUploadedFile", "readerOnload"} /\ lastOp'.arg = 0)
       => /\ sheetDataList' = sheetDataList
          /\ (lastOp'.name = "readerOnload" => notification'.type = "error")]_vars

\* C3 as stated: in invoice mode a Process File run appends exactly one
\* Sheet per part/invoice key with a retained row, named part - invoice,
\* holding the key's serials of quantity <= 1 in input order.
C3_InvoiceSheetNamedByKey ==
  (ProcessFileRan /\ InvoiceMode) =>
    /\ Len(Appended) = Cardinality(SheetKeys)
    /\ \A k \in SheetKeys : \E j \in 1..Len(Appended) :
         /\ Appended[j].sheetName = k
         /\ SerialsOf(Appended[j]) = ExpectedValues(k)

\* C3 amended: in invoice mode a Process File run appends exactly one Sheet
\* per part/invoice key with a retained row, holding the key's serials of
\* quantity <= 1 in input order; it is named part - invoice when that name
\* is free, and part - invoice with a suffix (n) when it is in use.
C3_InvoiceSheetPerKey ==
  (ProcessFileRan /\ InvoiceMode) =>
    /\ Len(Appended) = Cardinality(SheetKeys)
    /\ \A k \in SheetKeys : \E j \in 1..Len(Appended) :
         /\ HasBase(Appended[j].sheetName, k)
         /\ (k \notin InUseBefore(j) => Appended[j].sheetName = k)
         /\ (k \in InUseBefore(j) => Appended[j].sheetName # k)
         /\ SerialsOf(Appended[j]) = ExpectedValues(k)

\* C3 witness: a second run over P/I rows A1 (1), B2 (1), A9 (2) appended
\* the Sheet P - I (1) with the records A1, B2.
C3_Witness ==
  /\ ProcessFileRan /\ InvoiceMode
  /\ lastOp.arg = 1
  /\ Len(RunRows) = 3
  /\ \E r \in 1..3 : SerialCell(RunRows[r]) = Str(<<"A", "9">>)
  /\ Len(Appended) = 1
  /\ Appended[1].sheetName = Suffixed(sPI, 1)
  /\ SerialsOf(Appended[1]) = <<sA1, <<"B", "2">>>>

\* C4: the records a Process File run appends are those of the rows whose
\* quantity, trimmed and parsed as a number, is <= 1: every record stems
\* from such a row, and every such row that is grouped has its record.
C4_QuantityGuard ==
  ProcessFileRan =>
    /\ \A j \in 1..Len(Appended) : \A i \in 1..Len(Appended[j].data) :
         \E r \in 1..Len(RunRows) :
           /\ QtyAtMostOne(RunRows[r])
           /\ JsString(SerialCell(RunRows[r])) = Appended[j].data[i].serialNo
    /\ \A r \in 1..Len(RunRows) :
         (InScope(RunRows[r]) /\ QtyAtMostOne(RunRows[r])) =>
           \E j \in 1..Len(Appended) : \E i \in 1..Len(Appended[j].data) :
             Appended[j].data[i].serialNo = JsString(SerialCell(RunRows[r]))

\* The letter/digit shape of a value and the diagnostic of a value against
\* the reference value.
Shape(v) == [i \in 1..Len(v) |-> IF v[i] \in Digits THEN "N" ELSE "L"]
Diagnostic(v0, vi) ==
  IF Len(vi) # Len(v0) THEN "Length Mismatch"
  ELSE IF Shape(vi) # Shape(v0) THEN "Sequence Mismatch"
  ELSE "none"

FlaggedPositions ==
  UNION {{<<k, i>> : i \in {n \in 2..Len(ExpectedValues(k)) :
                             Diagnostic(ExpectedValues(k)[1], ExpectedValues(k)[n]) # "none"}}
         : k \in SheetKeys}

\* C5: with validation on, the diagnostics of a Process File run are, for
\* every group and every retained value after the first, a Length Mismatch
\* when its length differs from the first value's, else a Sequence Mismatch
\* when its shape differs, else nothing; the first value is never flagged.
C5_ValidatorReferenceRule ==
  (ProcessFileRan /\ lastOp.out.validateSerials) =>
    /\ Range(mismatchedSerials) =
         {[group |-> p[1], serial |-> ExpectedValues(p[1])[p[2]],
           reason |-> Diagnostic(ExpectedValues(p[1])[1], ExpectedValues(p[1])[p[2]])]
          : p \in FlaggedPositions}
    /\ Len(mismatchedSerials) = Cardinality(FlaggedPositions)

\* C5 witness: a run over a group of three values flagged the second for
\* its length and the third for its shape.
C5_Witness ==
  /\ ProcessFileRan /\ lastOp.out.validateSerials
  /\ Len(mismatchedSerials) = 2
  /\ mismatchedSerials[1].reason = "Length Mismatch"
  /\ mismatchedSerials[2].reason = "Sequence Mismatch"
  /\ mismatchedSerials[1].group = mismatchedSerials[2].group

\* C6: the Sheets a Process File run appends are those the same run appends
\* with the validation switch the other way; a flagged value stays in its
\* Sheet; the diagnostics are empty with validation off and come with a
\* warning otherwise.
C6_ValidationNonBlocking ==
  ProcessFileRan =>
    /\ Appended =
         Uniquify(PriorNames,
                  RunResult([lastOp.out EXCEPT !.validateSerials = ~@]).sheets)
    /\ \A e \in Range(mismatchedSerials) : \E j \in 1..Len(Appended) :
         /\ HasBase(Appended[j].sheetName, e.group)
         /\ e.serial \in Range(SerialsOf(Appended[j]))
    /\ (~lastOp.out.validateSerials => mismatchedSerials = <<>>)
    /\ (notification.type = "warning" <=> mismatchedSerials # <<>>)

\* C6 witness: a validated run that flagged a value and appended its Sheet.
C6_Witness ==
  /\ ProcessFileRan /\ lastOp.out.validateSerials
  /\ mismatchedSerials # <<>>
  /\ notification.type = "warning"
  /\ \E j \in 1..Len(Appended) :
       mismatchedSerials[1].serial \in Range(SerialsOf(Appended[j]))

\* C7: every Sheet a Process File run appends is stored under its group key
\* when no Sheet of the collection, nor one appended earlier in the run, has
\* that name, and otherwise under the key followed by (n) for the smallest
\* n >= 1 that is not in use; the stored names are registered, so no two
\* Sheets of the run, nor a new and an old one, share a name.
C7_SmallestFreeSuffix ==
  ProcessFileRan =>
    /\ \A j \in 1..Len(Appended) : \E k \in SheetKeys :
         /\ SerialsOf(Appended[j]) = ExpectedValues(k)
         /\ Appended[j].sheetName = StoredName(k, InUseBefore(j))
    /\ \A j \in 1..Len(Appended) : Appended[j].sheetName \notin InUseBefore(j)

\* C7 witness: a third append of P - I was stored as P - I (2).
C7_Witness ==
  /\ ProcessFileRan
  /\ lastOp.arg = 2
  /\ Len(Appended) = 1
  /\ sheetDataList[1].sheetName = sPI
  /\ sheetDataList[2].sheetName = Suffixed(sPI, 1)
  /\ Appended[1].sheetName = Suffixed(sPI, 2)

\* A record as the lot-mode flag lot and the input value make it.
RecordOf(value, lot) ==
  [availSerial |-> <<"Y", "e", "s">>, serialNo |-> IF lot THEN <<>> ELSE value,
   availLot |-> <<"Y", "e", "s">>, lotNo |-> IF lot THEN value ELSE <<>>,
   availPackage |-> <<"Y", "e", "s">>, packageNo |-> <<>>,
   qtyBase |-> 1, qtyToHandle |-> 1, applToItemEntry |-> 0,
   licenseKey |-> <<>>, binCode |-> <<>>]

WellFormedRecord(r) ==
  /\ r.serialNo = <<>> \/ r.lotNo = <<>>
  /\ \E value \in {r.serialNo, r.lotNo}, lot \in BOOLEAN : r = RecordOf(value, lot)

\* C8: every record of the collection has at most one of Serial No. / Lot
\* No. non-empty and the nine companion constants; the Sheet a raw Add or
\* Update stores, and the Sheets a Process Manual run appends, hold the
\* records of the typed values under the lot-mode flag of the time.
C8_RecordInvariant ==
  [][/\ \A j \in 1..Len(sheetDataList') : \A i \in 1..Len(sheetDataList'[j].data) :
          WellFormedRecord(sheetDataList'[j].data[i])
     /\ lastOp'.name \in {"rawAdd", "rawUpdate"} =>
          LET values == EntriesOf(rawText, hasHeader, columnIndex)
              stored == sheetDataList'[lastOp'.arg + 1].data
          IN stored = [i \in 1..Len(values) |-> RecordOf(values[i], lotOnlyMode)]
     /\ (lastOp'.name = "timerFires" /\ lastOp'.arg >= 0) =>
          \A j \in (lastOp'.arg + 1)..Len(sheetDataList') :
            \A i \in 1..Len(sheetDataList'[j].data) :
              \E r \in 1..Len(parsedData) :
                sheetDataList'[j].data[i] =
                  RecordOf(JsString(Get(parsedData[r], selected.serial)), lotOnlyMode)
    ]_vars

\* C9: a Process File run groups no row whose part, serial or (in invoice
\* mode) invoice cell is absent or blank: every appended Sheet is named after
\* the key of a row that passes the rule, and every record carries the
\* non-blank serial of such a row.
C9_GroupingSkipRule ==
  ProcessFileRan =>
    \A j \in 1..Len(Appended) :
      /\ \E r \in 1..Len(RunRows) :
           InScope(RunRows[r]) /\ HasBase(Appended[j].sheetName, KeyOfRow(RunRows[r]))
      /\ \A i \in 1..Len(Appended[j].data) :
           /\ Trim(Appended[j].data[i].serialNo) # <<>>
           /\ \E r \in 1..Len(RunRows) :
                /\ InScope(RunRows[r])
                /\ JsString(SerialCell(RunRows[r])) = Appended[j].data[i].serialNo

\* C10: an Update at index i keeps the length of the collection, stores the
\* new Sheet at i and leaves the other positions as they were; a Delete at
\* index i removes that Sheet and keeps the others in order; a declined
\* Delete changes nothing.
C10_IndexedOperationsAreLocal ==
  [][/\ lastOp'.name = "rawUpdate" =>
          /\ Len(sheetDataList') = Len(sheetDataList)
          /\ lastOp'.arg + 1 \in 1..Len(sheetDataList')
          /\ IsSheet(sheetDataList'[lastOp'.arg + 1])
          /\ sheetDataList'[lastOp'.arg + 1].sheetName =
               finalSheetNameOf(sheetName, sheetDataList)
          /\ \A j \in 1..Len(sheetDataList) :
               j # lastOp'.arg + 1 => sheetDataList'[j] = sheetDataList[j]
     /\ lastOp'.name = "delete" =>
          sheetDataList' =
            [j \in 1..(Len(sheetDataList) - 1) |->
               IF j < lastOp'.arg + 1 THEN sheetDataList[j] ELSE sheetDataList[j + 1]]
     /\ lastOp'.name = "deleteDeclined" => sheetDataList' = sheetDataList
    ]_vars

\* The text, the header flag and the column index leave no entry: every
\* line kept after the header line is dropped lacks a non-blank field at the
\* chosen column.
HasInk(s) == \E i \in 1..Len(s) : s[i] \notin WhiteSpace
FieldsOf(line) == Split(line, IF Includes(line, "\t") THEN "\t" ELSE ",")
HasFieldAt(line, index) ==
  index + 1 \in 1..Len(FieldsOf(line)) /\ HasInk(FieldsOf(line)[index + 1])
InkedLines(text) == SelectSeq(Split(text, "\n"), HasInk)
KeptLines(text, header) ==
  LET lines == InkedLines(text) IN
  IF header THEN SubSeq(lines, 2, Len(lines)) ELSE lines
NoEntry(text, header, index) ==
  \A k \in 1..Len(KeptLines(text, header)) : ~HasFieldAt(KeptLines(text, header)[k], index)

\* A mapping the active mode requires is unselected.
RequiredUnselected ==
  \/ selected.part = <<>> \/ selected.qty = <<>> \/ selected.serial = <<>>
  \/ processingMode = "invoice" /\ selected.invoice = <<>>

\* C11: a manual Add/Update is rejected exactly when its text yields no
\* entry, and a Process File press with a required mapping unselected is
\* rejected; each rejected step shows an error message and leaves the Sheet
\* Collection and the editing index as they were (and starts no run).
C11_EmptyInputError ==
  [][/\ lastOp'.name \in {"rawRejected", "rawAdd", "rawUpdate"} =>
          (NoEntry(rawText, hasHeader, columnIndex) <=> lastOp'.name = "rawRejected")
     /\ lastOp'.name = "rawRejected" =>
          /\ notification'.type = "error"
          /\ sheetDataList' = sheetDataList
          /\ editingSheetIndex' = editingSheetIndex
     /\ lastOp'.name \in {"EGprocessData", "processData"} =>
          (RequiredUnselected <=> lastOp'.arg = -1 /\ notification'.msg = "select-required-columns")
     /\ (lastOp'.name \in {"EGprocessData", "processData"} /\ RequiredUnselected) =>
          /\ notification'.type = "error"
          /\ sheetDataList' = sheetDataList
          /\ editingSheetIndex' = editingSheetIndex
          /\ timers' = timers
    ]_vars

\* C11 witness: while Sheet 0 is being edited, an Update with a header line
\* alone was rejected.
C11_Witness ==
  /\ Len(sheetDataList) > 0
  /\ editingSheetIndex = 0
  /\ notification.type = "error"
  /\ lastOp.name = "rawRejected"
  /\ rawText = FormHeaderOnly.rawText /\ hasHeader

\* The selections the active mode requires, in the order part, invoice,
\* quantity, serial, that are not headers of the current file.
RequiredSelections ==
  IF processingMode = "invoice"
  THEN <<selected.part, selected.invoice, selected.qty, selected.serial>>
  ELSE <<selected.part, selected.qty, selected.serial>>
IsCurrentHeader(h) == \E i \in 1..Len(fileHeaders) : fileHeaders[i] = h
NotCurrentHeader(h) == ~IsCurrentHeader(h)
MissingSelections == SelectSeq(RequiredSelections, NotCurrentHeader)

\* C12: a Process File run with every required column selected reports a
\* mapping error exactly when a required selection is not a header of the
\* current file; the report lists exactly those selections, the run returns
\* before grouping, and the Sheet Collection, the mismatch list and the
\* loading flag stay as they were.
C12_MappingError ==
  [][(lastOp'.name = "processData" /\ ~RequiredUnselected) =>
       /\ MissingSelections # <<>> <=> notification'.msg = "columns-not-found"
       /\ MissingSelections # <<>> =>
            /\ notification' = Note("error", "columns-not-found", MissingSelections)
            /\ lastOp'.arg = -1
            /\ sheetDataList' = sheetDataList
            /\ mismatchedSerials' = mismatchedSerials
            /\ isLoading' = isLoading
    ]_vars

\* C12 witness: with one Sheet in the collection, the file with the headers
\* P, J, Q, X was processed in invoice mode under the selections P, I, Q, S
\* of the file before it: I and S were reported.
C12_Witness ==
  /\ lastOp.name = "processData" /\ lastOp.arg = -1
  /\ fileHeaders = <<hP, <<"J">>, hQ, <<"X">>>>
  /\ selected = StdMapping /\ processingMode = "invoice"
  /\ notification = Note("error", "columns-not-found", <<hI, hS>>)
  /\ Len(sheetDataList) = 1

\* C13: every Sheet of the collection has at least one record.
C13_NoEmptySheet ==
  \A i \in 1..Len(sheetDataList) :
    IsSheet(sheetDataList[i]) => Len(sheetDataList[i].data) >= 1

\* C13 witness: beside a Sheet added by hand, an invoice-mode Process File
\* run over the groups P - J (no retained row) and P - I appended the one
\* Sheet P - I.
C13_Witness ==
  /\ ProcessFileRan /\ InvoiceMode
  /\ lastOp.arg = 1
  /\ \E r \in 1..Len(RunRows) : InScope(RunRows[r]) /\ KeyOfRow(RunRows[r]) \notin SheetKeys
  /\ Len(Appended) = 1 /\ Appended[1].sheetName = sPI
  /\ sheetDataList[1].sheetName = <<"K">>

\* The Sheets of the collection, in order.
SheetsOf(list) == SelectSeq(list, IsSheet)

\* C14: an export of a non-empty collection hands the writer a Summary table
\* first, with one row per Sheet in collection order carrying the Sheet's
\* name and record count, then one table per Sheet; an export of an empty
\* collection hands over nothing and shows an error.
C14_ExportSummary ==
  /\ lastOp.name = "handleExport" =>
       LET sheets == SheetsOf(sheetDataList)
           summary == lastOp.out[1]
       IN /\ Len(sheetDataList) > 0
          /\ Len(lastOp.out) = 1 + Len(sheets)
          /\ summary.name = <<"S", "u", "m", "m", "a", "r", "y">>
          /\ Len(summary.rows) = Len(sheets)
          /\ \A i \in 1..Len(sheets) :
               /\ summary.rows[i].name = sheets[i].sheetName
               /\ summary.rows[i].count = Len(sheets[i].data)
               /\ lastOp.out[i + 1].rows = sheets[i].data
  /\ lastOp.name = "exportRejected" =>
       /\ Len(sheetDataList) = 0
       /\ lastOp.out = <<>>
       /\ notification.type = "error"

\* C14 witness: Sheets of three and five records were exported with a
\* Summary of two rows, counts 3 and 5.
C14_Witness ==
  /\ lastOp.name = "handleExport"
  /\ Len(sheetDataList) = 2
  /\ Len(lastOp.out[1].rows) = 2
  /\ lastOp.out[1].rows[1].count = 3
  /\ lastOp.out[1].rows[2].count = 5

\* The per-sheet tables of the last export.
PerSheetTables ==
  IF lastOp.name = "handleExport" THEN Tail(lastOp.out) ELSE lastOp.out
First31(name) == [i \in 1..(IF Len(name) <= 31 THEN Len(name) ELSE 31) |-> name[i]]

\* C15: every per-sheet table of an export is named by the first 31
\* characters of its Sheet's name.
C15_ExportNameTruncated ==
  lastOp.name \in {"handleExport", "SEhandleExport"} =>
    /\ Len(PerSheetTables) = Len(SheetsOf(sheetDataList))
    /\ \A i \in 1..Len(PerSheetTables) :
         /\ Len(PerSheetTables[i].name) <= 31
         /\ PerSheetTables[i].name = First31(SheetsOf(sheetDataList)[i].sheetName)

\* C16: after a sheet is loaded its header list holds no name twice, and
\* every Parsed Row holds, under the i-th header, the cell of the i-th
\* column (the empty string for an empty cell).
C16_HeadersDistinct ==
  (lastOp.name = "readerOnload" /\ lastOp.arg = 1) =>
    LET grid == workbook[1].grid IN
    /\ Len(fileHeaders) = Len(grid[1])
    /\ \A i, j \in 1..Len(fileHeaders) : i < j => fileHeaders[i] # fileHeaders[j]
    /\ \A r \in 1..Len(parsedData) : \A i \in 1..Len(fileHeaders) :
         /\ fileHeaders[i] \in DOMAIN parsedData[r]
         /\ parsedData[r][fileHeaders[i]] =
              (IF grid[r + 1][i] = Undef THEN Str(<<>>) ELSE grid[r + 1][i])

\* Two Process File runs in a row read the same rows, mode and mappings.
RerunStep ==
  /\ ProcessFileRan /\ ProcessFileRan'
  /\ lastOp'.out = lastOp.out

ManualBuilderStep == lastOp'.name \in {"rawRejected", "rawAdd", "rawUpdate"}
ManualStored == lastOp.name \in {"rawAdd", "rawUpdate"}
BuiltSheet == sheetDataList[lastOp.arg + 1]

\* The number of pasted lines that are non-blank after trimming.
InkedCount(text) ==
  Cardinality({i \in 1..Len(Split(text, "\n")) : HasInk(Split(text, "\n")[i])})

\* C18: with N pasted lines non-blank after trimming, a press of Add/Update
\* tokenizes N rows when the header flag is off and N - 1 (0 when N = 0)
\* when it is on: the non-blank lines in their order, without the first of
\* them when the flag is on; the Sheet it stores has at most one record per
\* row.
C18_Tokenization ==
  [][ManualBuilderStep =>
       LET n == InkedCount(rawText)
           rows == SlicedLines(rawText, hasHeader)
       IN /\ Len(rows) = IF ~hasHeader THEN n ELSE IF n = 0 THEN 0 ELSE n - 1
          /\ rows = KeptLines(rawText, hasHeader)
          /\ ManualStored' => Len(BuiltSheet'.data) <= Len(rows)
    ]_vars

\* C18 witness: header flag on, a blank line above the header line and one
\* line below it; the press stored the row below the header line and, in a
\* secure context, waits for the clipboard with the text still there.
C18_Witness ==
  /\ ManualStored /\ hasHeader /\ columnIndex = 0
  /\ Len(Split(rawText, "\n")) = MaxLines
  /\ ~HasInk(Split(rawText, "\n")[1])
  /\ InkedCount(rawText) = 2
  /\ Len(BuiltSheet.data) = 1

\* fields are the pieces of line between its occurrences of sep.
IsSplit(fields, line, sep) ==
  /\ Join(fields, <<sep>>) = line
  /\ \A i \in 1..Len(fields) : ~Includes(fields[i], sep)

\* The delimiter of a line: tab when the line holds one, else comma.
DelimiterOf(line) == IF Includes(line, "\t") THEN "\t" ELSE ","

\* The values of the records of a Sheet built from serials.
ValuesOf(sheet) == [i \in 1..Len(sheet.data) |-> sheet.data[i].serialNo]

\* The trimmed field of each kept line at the chosen column under the line's
\* own delimiter, for the lines that have a non-blank one.
WantedValues(text, header, index) ==
  LET has(line) == HasFieldAt(line, index)
      lines == SelectSeq(KeptLines(text, header), has)
  IN [k \in 1..Len(lines) |-> Trim(Split(lines[k], DelimiterOf(lines[k]))[index + 1])]

\* C19: on a press of Add/Update each kept line is split on its own
\* delimiter, tab when the line holds a tab (its commas stay inside the
\* fields) and comma otherwise, whatever the other lines hold; the values
\* stored are the fields so obtained at the chosen column.
C19_DelimiterPerLine ==
  [][ManualBuilderStep =>
       /\ \A k \in 1..Len(KeptLines(rawText, hasHeader)) :
            LET line == KeptLines(rawText, hasHeader)[k] IN
            IsSplit(Columns(line), line, DelimiterOf(line))
       /\ ManualStored' /\ ~lotOnlyMode =>
            ValuesOf(BuiltSheet') = WantedValues(rawText, hasHeader, columnIndex)
    ]_vars

\* C19 witness: a tab-separated line with a comma in its second field above
\* a comma-separated line, column 1: the Sheet holds b,c and b.
C19_Witness ==
  /\ ManualStored /\ ~hasHeader /\ columnIndex = 1
  /\ InkedLines(rawText) = << <<"a", "\t", "b", ",", "c">>, <<"a", ",", "b">> >>
  /\ ValuesOf(BuiltSheet) = << <<"b", ",", "c">>, <<"b">> >>

\* The kept lines that have a non-blank field at the chosen column.
LinesWithField(text, header, index) ==
  LET has(line) == HasFieldAt(line, index) IN SelectSeq(KeptLines(text, header), has)

\* C20: on a press of Add/Update, extracting the chosen column from a kept
\* line yields absent when the line has too few fields or the index is
\* negative, and a value otherwise; absent and blank fields leave no record:
\* the Sheet stored has one record, with a non-empty value, per kept line
\* with a non-blank field at the column, and the press is rejected when
\* there is no such line.
C20_ExtractionPurity ==
  [][ManualBuilderStep =>
       LET lines == KeptLines(rawText, hasHeader)
           count == Len(LinesWithField(rawText, hasHeader, columnIndex))
       IN /\ \A k \in 1..Len(lines) :
               /\ FieldAt(lines[k], columnIndex) = Absent
                    <=> (columnIndex < 0 \/ Len(FieldsOf(lines[k])) < columnIndex + 1)
               /\ FieldAt(lines[k], columnIndex) \notin {Absent, <<>>}
                    <=> HasFieldAt(lines[k], columnIndex)
          /\ ManualStored' <=> count > 0
          /\ ManualStored' =>
               /\ Len(BuiltSheet'.data) = count
               /\ \A j \in 1..count :
                    IF lotOnlyMode THEN BuiltSheet'.data[j].lotNo # <<>>
                    ELSE BuiltSheet'.data[j].serialNo # <<>>
          /\ ~ManualStored' =>
               sheetDataList' = sheetDataList /\ notification'.type = "error"
    ]_vars

\* C20 witness: column 1 of three kept lines, one with a single field, one
\* with a blank second field and one with a second field: one record.
C20_Witness ==
  /\ ManualStored /\ ~hasHeader /\ columnIndex = 1
  /\ Len(InkedLines(rawText)) = 3
  /\ \E k \in 1..3 : Len(FieldsOf(InkedLines(rawText)[k])) = 1
  /\ \E k \in 1..3 :
       /\ Len(FieldsOf(InkedLines(rawText)[k])) = 2
       /\ ~HasInk(FieldsOf(InkedLines(rawText)[k])[2])
  /\ Len(BuiltSheet.data) = 1

\* C21: the Sheet Collection after a raw Add/Update or a Process File run
\* is fixed by the state the operation read, whatever the clipboard write
\* does: Add appends one Sheet of the pasted values, Update writes it at the
\* edited slot, Process File appends one Sheet per group key with a retained
\* row, and the step that ends the wait for the clipboard, success or
\* failure, leaves the collection as it is.
C21_ClipboardNeverBlocks ==
  [][/\ lastOp'.name = "rawAdd" =>
          /\ Len(sheetDataList') = Len(sheetDataList) + 1
          /\ \A j \in 1..Len(sheetDataList) : sheetDataList'[j] = sheetDataList[j]
          /\ ValuesOf(BuiltSheet') = WantedValues(rawText, hasHeader, columnIndex)
     /\ lastOp'.name = "rawUpdate" =>
          /\ Len(sheetDataList') >= Len(sheetDataList)
          /\ \A j \in 1..Len(sheetDataList) :
               j # editingSheetIndex + 1 => sheetDataList'[j] = sheetDataList[j]
          /\ ValuesOf(BuiltSheet') = WantedValues(rawText, hasHeader, columnIndex)
     /\ lastOp'.name = "resume" => sheetDataList' = sheetDataList
     /\ (lastOp'.name = "processData" /\ lastOp'.arg >= 0) =>
          /\ Len(sheetDataList') = Len(sheetDataList) + Cardinality(SheetKeys')
          /\ \A j \in 1..Len(sheetDataList) : sheetDataList'[j] = sheetDataList[j]
    ]_vars

\* C21 witness: in a secure context the clipboard write of a raw Add failed;
\* the warning is shown and the Sheet K with its two records is stored.
C21_Witness ==
  /\ secureContext /\ lastOp.name = "resume" /\ lastOp.arg = 0
  /\ notification = Note("warning", "added-copy-failed", <<>>)
  /\ \E j \in 1..Len(sheetDataList) :
       /\ IsSheet(sheetDataList[j])
       /\ sheetDataList[j].sheetName = <<"K">>
       /\ ValuesOf(sheetDataList[j]) = << <<"A", "1">>, <<"A", "2">> >>

\* What Edit loads into the form from a Sheet (handleEditSheet).
LoadedText(sheet) ==
  LET isLot == \E i \in 1..Len(sheet.data) : sheet.data[i].lotNo # <<>>
      value(row) == IF isLot THEN row.lotNo ELSE row.serialNo
  IN Join([i \in 1..Len(sheet.data) |-> value(sheet.data[i])], <<"\n">>)

\* The slot the editing index points at holds the Sheet the form was loaded
\* from.
EditedSheetInPlace ==
  /\ editingSheetIndex + 1 \in 1..Len(sheetDataList)
  /\ IsSheet(sheetDataList[editingSheetIndex + 1])
  /\ sheetDataList[editingSheetIndex + 1].sheetName = sheetName
  /\ LoadedText(sheetDataList[editingSheetIndex + 1]) = rawText

\* C22: an Update overwrites the Sheet that Edit loaded into the form, and
\* no other Sheet, whatever was deleted between Edit and Update.
C22_UpdateReplacesEdited ==
  [][lastOp'.name = "rawUpdate" =>
       /\ EditedSheetInPlace
       /\ Len(sheetDataList') = Len(sheetDataList)
       /\ \A j \in 1..Len(sheetDataList) :
            j # editingSheetIndex + 1 => sheetDataList'[j] = sheetDataList[j]
    ]_vars

\* C23: in every reachable state the editing index is null or the position
\* of a slot of the collection, and every slot of the collection holds a
\* Sheet.
C23_EditingIndexValid ==
  /\ editingSheetIndex = NoIndex \/ editingSheetIndex \in 0..(Len(sheetDataList) - 1)
  /\ \A j \in 1..Len(sheetDataList) : IsSheet(sheetDataList[j])

\* The manual rows Process Manual has put into parsedData: their part value,
\* their serials, and the name of the Sheet they should yield.
ManualPart == JsString(Get(parsedData[1], selected.part))
ManualSerials == [i \in 1..Len(parsedData) |-> JsString(Get(parsedData[i], selected.serial))]
ManualSheetName ==
  IF processingMode = "invoice" THEN ManualPart \o <<" ", "-", " ">> \o <<"M", "a", "n", "u", "a", "l">>
  ELSE ManualPart

\* C24: the deferred callback of a Process Manual run reads the rows built
\* from the pasted entries, and the run appends exactly one Sheet, named
\* after the Sheet/Part name field (Manual when blank, with - Manual
\* appended in invoice mode), holding the manual entries in order.
C24_ManualRunReadsManualRows ==
  [][(lastOp.name = "manualScheduled" /\ lastOp'.name = "timerFires") =>
       /\ lastOp'.out.parsedData = parsedData
       /\ lastOp'.arg >= 0
       /\ Len(sheetDataList') = Len(sheetDataList) + 1
       /\ HasBase(sheetDataList'[Len(sheetDataList')].sheetName, ManualSheetName)
       /\ SerialsOf(sheetDataList'[Len(sheetDataList')]) = ManualSerials
    ]_vars

\* C25: starting an upload cancels no read in flight; each read callback
\* runs on its own file whichever upload came first, writes that file's
\* sheets, headers and rows when the file loads and leaves the headers and
\* rows alone when it does not; no step of an upload touches the Sheet
\* Collection.
C25_OverlappingUploads ==
  [][/\ lastOp'.name \in {"processUploadedFile", "processUploadedFileDuringRead"} =>
          /\ Len(reads') = Len(reads) + 1
          /\ \A i \in 1..Len(reads) : reads'[i] = reads[i]
          /\ sheetDataList' = sheetDataList
     /\ lastOp'.name = "readerOnload" =>
          /\ sheetDataList' = sheetDataList
          /\ \E i \in 1..Len(reads) :
               /\ reads' = DropAt(reads, i)
               /\ IF lastOp'.arg = 1
                  THEN /\ workbook' = reads[i].sheets
                       /\ fileHeaders' = parseSheet(reads[i].sheets, reads[i].sheets[1].name).headers
                       /\ parsedData' = parseSheet(reads[i].sheets, reads[i].sheets[1].name).rows
                  ELSE /\ fileHeaders' = fileHeaders
                       /\ parsedData' = parsedData
    ]_vars

\* C25 witness: with the read of FileGood still in flight, the callback of
\* FileOther has run and its headers and rows are shown; the Sheet added by
\* hand is still the collection.
C25_Witness ==
  /\ reads = <<FileGood>>
  /\ lastOp.name = "readerOnload" /\ lastOp.arg = 1
  /\ workbook = FileOther.sheets
  /\ fileHeaders = parseSheet(FileOther.sheets, FileOther.sheets[1].name).headers
  /\ Len(parsedData) > 0
  /\ Len(sheetDataList) = 1

C27_ExportNamesDistinct ==
  lastOp.name = "handleExport" =>
    \A i, j \in 1..Len(lastOp.out) :
      lastOp.out[i].name = lastOp.out[j].name => i = j


\* The row at which a group key first occurs among the rows in scope, and
\* the keys that yield a Sheet in the order of those rows.
FirstOccurrence(k) ==
  CHOOSE r \in 1..Len(RunRows) :
    /\ InScope(RunRows[r]) /\ KeyOfRow(RunRows[r]) = k
    /\ \A q \in 1..(r - 1) : ~(InScope(RunRows[q]) /\ KeyOfRow(RunRows[q]) = k)
IsFirstOfSheetKey(r) ==
  /\ InScope(RunRows[r])
  /\ KeyOfRow(RunRows[r]) \in SheetKeys
  /\ FirstOccurrence(KeyOfRow(RunRows[r])) = r
KeysInRowOrder ==
  LET firsts == {r \in 1..Len(RunRows) : IsFirstOfSheetKey(r)}
      before(r) == Cardinality({q \in firsts : q < r})
  IN [i \in 1..Cardinality(firsts) |->
        KeyOfRow(RunRows[CHOOSE r \in firsts : before(r) = i - 1])]

\* C28: the Sheets one Process File run appends stand in the order in which
\* their group keys first occur in the Parsed Rows, in either mode and for
\* every form of key.
C28_SheetsInFirstOccurrenceOrder ==
  ProcessFileRan =>
    /\ Len(Appended) = Len(KeysInRowOrder)
    /\ \A i \in 1..Len(Appended) :
         /\ HasBase(Appended[i].sheetName, KeysInRowOrder[i])
         /\ SerialsOf(Appended[i]) = ExpectedValues(KeysInRowOrder[i])


\* C29: with the header flag off and column index 0, an Update that follows
\* an Edit with the text and the name untouched leaves in the edited slot a
\* Sheet equal to the one that was there.
C29_EditUpdateRoundTrip ==
  [][(/\ lastOp.name = "handleEditSheet"
      /\ ~hasHeader /\ columnIndex = 0
      /\ lastOp'.name = "rawUpdate")
       => sheetDataList'[editingSheetIndex + 1] = sheetDataList[editingSheetIndex + 1]
    ]_vars


\* The entries the validating builder reads from the form, the positions of
\* the entries equal to an earlier one, and the Duplicate mismatches among
\* the diagnostics of a step.
VBEntries == EntriesOf(rawText, hasHeader, columnIndex)
VBRepeats == {i \in 1..Len(VBEntries) : \E j \in 1..(i - 1) : VBEntries[j] = VBEntries[i]}
IsDuplicateMismatch(m) == m.reason = "Duplicate"
DuplicatesIn(out) == SelectSeq(out, IsDuplicateMismatch)

\* C30: when the validating builder creates a Sheet from two or more entries,
\* the Duplicate mismatches are, in order, the entries equal to an earlier
\* entry, one for each, and none for a first occurrence; the Sheet holds one
\* record per entry, repeats included, in entry order.
C30_FlagAndKeep ==
  [][(lastOp'.name \in {"VBadd", "VBupdate"} /\ Len(VBEntries) >= 2) =>
       LET dups == DuplicatesIn(lastOp'.out)
           created == sheetDataList'[lastOp'.arg + 1]
           value(row) == IF lotOnlyMode THEN row.lotNo ELSE row.serialNo
       IN /\ Len(dups) = Cardinality(VBRepeats)
          /\ \A n \in 1..Len(dups) :
               \E i \in VBRepeats :
                 /\ Cardinality({q \in VBRepeats : q < i}) = n - 1
                 /\ dups[n].serial = VBEntries[i]
          /\ Len(created.data) = Len(VBEntries)
          /\ \A i \in 1..Len(VBEntries) : value(created.data[i]) = VBEntries[i]
    ]_vars

\* C30 witness: three equal entries gave a Sheet of three records and two
\* Duplicate mismatches.
C30_Witness ==
  /\ lastOp.name = "VBadd"
  /\ Len(DuplicatesIn(lastOp.out)) = 2
  /\ Len(lastOp.out) = 2
  /\ Len(sheetDataList) = 1
  /\ Len(sheetDataList[1].data) = 3
  /\ \A i \in 1..3 : sheetDataList[1].data[i].serialNo = <<"A", "1">>

=============================================================================
